---- MODULE Spec2Model ----
(***************************************************************************)
(* Model of the data normalisation, filtering and aggregation engine of    *)
(* the mortgage price analysis tool (ColumnMapper.js, sortUtils.js,        *)
(* DataManager.js / FilterManager, DataAggregator.js, MarketShareTable.js),*)
(* and of its filter panel and state manager (FilterPanel, StateManager.js).*)
(*                                                                         *)
(* JavaScript strings are sequences of one-character strings, so that      *)
(* split, parseFloat and template formatting are computed, not assumed.    *)
(* JavaScript numbers are integers counted in thousandths when they come   *)
(* from parseFloat of a band label, and plain integers for loan amounts,   *)
(* LTV and the other record fields.  NaN, null/undefined and Invalid Date  *)
(* are explicit values.                                                    *)
(***************************************************************************)
EXTENDS Integers, Sequences, FiniteSets, TLC

VARIABLES
  bandSrc,    \* the label a band-normalisation run started from
  bandIn,     \* argument of the last Field Normalizer call
  bandOut,    \* value returned by the last Field Normalizer call
  bandOp,     \* which Field Normalizer call ran last
  rawData,    \* the record collection the engine works on (state.data.raw)
  op,         \* the engine operation that ran last
  options,    \* the options that operation was called with
  aggregated, \* the aggregate result (state.data.aggregated)
  weighted,   \* the weighted averages (state.data.weightedAverages)
  stateFilters, \* the filter specification (state.filters)
  activeFilters, \* FilterManager.activeFilters
  filtered,   \* the filtered collection (state.data.filtered)
  refiltered, \* what filtering the filtered collection returned
  marketShare, \* what MarketShareTable.calculateMarketShare returned
  tableData,  \* the rows MarketShareTable.render handed to the table (none: <<>>)
  datasets,   \* the datasets handed to DataLoader.combineAndProcess
  combined,   \* the collection DataLoader.combineAndProcess returned
  lenderCheckboxes, \* the values of the checked lender checkboxes of the FilterPanel
  purchaseTypeCheckboxes, \* the values of its checked purchase type checkboxes
  pendingApply, \* state.ui.filtersChangedPendingApply
  state,      \* StateManager.state
  subscribers, \* StateManager.subscribers: the callbacks of each key, in order
  calls,      \* the callbacks the last setState invoked, with their arguments
  gettingFilterOptions, \* FilterManager._gettingFilterOptions
  invocations, \* the calls of getFilterOptions under way, the innermost last
  returned    \* what the calls of getFilterOptions returned, and at which depth

bandVars == <<bandSrc, bandIn, bandOut, bandOp>>

engineVars == <<rawData, op, options, aggregated, weighted>>

filterVars == <<stateFilters, activeFilters, filtered, refiltered>>

tableVars == <<marketShare, tableData>>

loaderVars == <<datasets, combined>>

panelVars == <<lenderCheckboxes, purchaseTypeCheckboxes, pendingApply>>

managerVars == <<state, subscribers, calls>>

optionVars == <<gettingFilterOptions, invocations, returned>>

componentVars == <<tableVars, loaderVars, panelVars, managerVars, optionVars>>

-----------------------------------------------------------------------------
(* Bounds                                                                  *)

MaxTokens == 5

MaxRecords == 2

\* the callbacks subscribed to the State Manager at a time
MaxSubscribers == 3

\* the calls of getFilterOptions under way at a time, and the calls that return
MaxDepth == 2

MaxReturns == 3

\* the records of a collection that is sampled
MaxSampled == 5

TicksPerDay == 2

DaysPerMonth == 2

-----------------------------------------------------------------------------
(* JavaScript string and number primitives                                 *)

DigitChars == <<"0", "1", "2", "3", "4", "5", "6", "7", "8", "9">>

IsDigit(c) == \E i \in 1..10 : DigitChars[i] = c

DigitVal(c) == (CHOOSE i \in 1..10 : DigitChars[i] = c) - 1

NaN == [nan |-> TRUE, val |-> 0]

Num(v) == [nan |-> FALSE, val |-> v]

\* String.prototype.includes for a one-character needle
Includes(s, c) == \E i \in 1..Len(s) : s[i] = c

RECURSIVE SplitFrom(_, _, _, _)
SplitFrom(s, sep, i, cur) ==
  IF i > Len(s) THEN <<cur>>
  ELSE IF s[i] = sep THEN <<cur>> \o SplitFrom(s, sep, i + 1, <<>>)
  ELSE SplitFrom(s, sep, i + 1, Append(cur, s[i]))

\* String.prototype.split with a one-character separator
Split(s, sep) == SplitFrom(s, sep, 1, <<>>)

RECURSIVE SkipWs(_, _)
SkipWs(s, i) == IF i <= Len(s) /\ s[i] = " " THEN SkipWs(s, i + 1) ELSE i

RECURSIVE DigitsEnd(_, _)
DigitsEnd(s, i) == IF i <= Len(s) /\ IsDigit(s[i]) THEN DigitsEnd(s, i + 1) ELSE i

RECURSIVE DigitsValue(_, _, _, _)
DigitsValue(s, i, j, acc) ==
  IF i >= j THEN acc ELSE DigitsValue(s, i + 1, j, 10 * acc + DigitVal(s[i]))

\* the first three fraction digits s[i..j-1] as thousandths
FracThousandths(s, i, j) ==
  LET d(k) == IF i + k < j THEN DigitVal(s[i + k]) ELSE 0
  IN  100 * d(0) + 10 * d(1) + d(2)

\* String.prototype.trim
RECURSIVE TrimRight(_)
TrimRight(s) == IF Len(s) > 0 /\ s[Len(s)] = " " THEN TrimRight(SubSeq(s, 1, Len(s) - 1)) ELSE s

Trim(s) == TrimRight(SubSeq(s, SkipWs(s, 1), Len(s)))

\* parseFloat: the longest numeric prefix after leading blanks, NaN when
\* there is none; the value is counted in thousandths
ParseFloat(s) ==
  LET a      == SkipWs(s, 1)
      signed == a <= Len(s) /\ s[a] \in {"-", "+"}
      neg    == a <= Len(s) /\ s[a] = "-"
      b      == IF signed THEN a + 1 ELSE a
      c      == DigitsEnd(s, b)
      hasDot == c <= Len(s) /\ s[c] = "."
      d      == IF hasDot THEN DigitsEnd(s, c + 1) ELSE c
      nInt   == c - b
      nFrac  == IF hasDot THEN d - (c + 1) ELSE 0
      mag    == 1000 * DigitsValue(s, b, c, 0)
                + (IF hasDot THEN FracThousandths(s, c + 1, d) ELSE 0)
  IN  IF nInt + nFrac = 0 THEN NaN
      ELSE Num(IF neg THEN 0 - mag ELSE mag)

\* Math.round(x * 100) for x counted in thousandths (ties go up)
RoundTimes100(x) == (x.val + 5) \div 10

RECURSIVE NatToStr(_)
NatToStr(n) ==
  IF n < 10 THEN <<DigitChars[n + 1]>>
  ELSE Append(NatToStr(n \div 10), DigitChars[(n % 10) + 1])

\* template-literal formatting of an integer
NumToStr(n) == IF n < 0 THEN <<"-">> \o NatToStr(0 - n) ELSE NatToStr(n)

\* null / undefined where an object or an array is expected
Null == [null |-> TRUE]

Unknown == <<"U", "n", "k", "n", "o", "w", "n">>

-----------------------------------------------------------------------------
(* Field Normalizer                                                        *)

\* ColumnMapper.js convertMarginBucketToBps (argument is a string)
convertMarginBucketToBps(bucketString) ==
  IF bucketString = <<>> THEN Unknown
  ELSE
    LET parts == Split(bucketString, "-")
    IN  IF Len(parts) # 2 THEN bucketString
        ELSE
          LET min == ParseFloat(parts[1])
              max == ParseFloat(parts[2])
          IN  IF min.nan \/ max.nan THEN bucketString
              ELSE NumToStr(RoundTimes100(min)) \o <<"-">> \o NumToStr(RoundTimes100(max))

\* the decimal-format test with the magnitude limit 1 mistaken for 100
IsDecimalFormatWideLimit(minStr, maxStr, min, max) ==
  /\ \/ (min.val > -100000 /\ min.val < 100000)
     \/ (max.val > -100000 /\ max.val < 100000)
  /\ \/ Includes(minStr, ".")
     \/ Includes(maxStr, ".")
     \/ (min.val # 0 /\ min.val > -100000 /\ min.val < 100000)
     \/ (max.val # 0 /\ max.val > -100000 /\ max.val < 100000)

\* the decimal-format test of standardizePremiumBand
IsDecimalFormat(minStr, maxStr, min, max) ==
  /\ \/ (min.val > -1000 /\ min.val < 1000)
     \/ (max.val > -1000 /\ max.val < 1000)
  /\ \/ Includes(minStr, ".")
     \/ Includes(maxStr, ".")
     \/ (min.val # 0 /\ min.val > -1000 /\ min.val < 1000)
     \/ (max.val # 0 /\ max.val > -1000 /\ max.val < 1000)

\* sortUtils.js standardizePremiumBand (argument is a string)
standardizePremiumBand(band) ==
  IF band = <<>> \/ band = Unknown THEN band
  ELSE IF band = <<"-", "0", ".", "2", "-", "0", ".", "0">> THEN <<"-", "2", "0", "-", "0">>
  ELSE IF ~Includes(band, "-") THEN band
  ELSE
    LET parts == Split(band, "-")
    IN  IF Len(parts) # 2 THEN band
        ELSE
          LET min == ParseFloat(parts[1])
              max == ParseFloat(parts[2])
          IN  IF min.nan \/ max.nan THEN band
              ELSE IF IsDecimalFormat(Trim(parts[1]), Trim(parts[2]), min, max)
                   THEN NumToStr(RoundTimes100(min)) \o <<"-">> \o NumToStr(RoundTimes100(max))
                   ELSE band

-----------------------------------------------------------------------------
(* Sequences, rationals, dates                                             *)

Range(s) == {s[i] : i \in 1..Len(s)}

Contains(s, x) == \E i \in 1..Len(s) : s[i] = x

\* the elements of s in order of first occurrence (keys of a Map / a Set)
RECURSIVE Distinct(_)
Distinct(s) ==
  IF s = <<>> THEN <<>>
  ELSE LET front == Distinct(SubSeq(s, 1, Len(s) - 1))
       IN  IF Contains(front, s[Len(s)]) THEN front ELSE Append(front, s[Len(s)])

RECURSIVE InsertByKey(_, _)
InsertByKey(s, x) ==
  IF s = <<>> THEN <<x>>
  ELSE IF Head(s).k <= x.k THEN <<Head(s)>> \o InsertByKey(Tail(s), x)
  ELSE <<x>> \o s

\* Array.prototype.sort with a comparator keyA - keyB (the sort is stable)
RECURSIVE SortByKey(_)
SortByKey(s) ==
  IF s = <<>> THEN <<>>
  ELSE InsertByKey(SortByKey(SubSeq(s, 1, Len(s) - 1)), s[Len(s)])

RECURSIVE Gcd(_, _)
Gcd(a, b) == IF b = 0 THEN a ELSE Gcd(b, a % b)

Abs(n) == IF n < 0 THEN 0 - n ELSE n

\* the quotient n / d of two numbers, d > 0, in lowest terms
Quotient(n, d) ==
  LET g == Gcd(Abs(n), d)
  IN  [num |-> n \div g, den |-> d \div g]

Zero == [num |-> 0, den |-> 1]

\* a record's DocumentDate: missing, an Invalid Date, or a Date at tick t
NoDate == [kind |-> "null", t |-> 0]

\* a date string with '/' that has not three parts: no date at all, and
\* recordDate.getTime() of line 239 throws inside the try of the record loop
SlashedDate == [kind |-> "slashed", t |-> 0]

InvalidDate == [kind |-> "invalid", t |-> 0]

DateAt(t) == [kind |-> "date", t |-> t]

DayOf(t) == t \div TicksPerDay

\* getFullYear() and getMonth() + 1; tick 0 is the start of 1 December 2024
MonthOf(t) ==
  LET mi == (2024 * 12) + 11 + (DayOf(t) \div DaysPerMonth)
  IN  <<mi \div 12, (mi % 12) + 1>>

\* new Date(year, month, 1) as a tick
MonthStart(m) ==
  (((m[1] * 12) + (m[2] - 1)) - ((2024 * 12) + 11)) * DaysPerMonth * TicksPerDay

\* currentDate.setMonth(currentDate.getMonth() + 1)
NextMonth(m) == IF m[2] = 12 THEN <<m[1] + 1, 1>> ELSE <<m[1], m[2] + 1>>

RECURSIVE MonthsUpTo(_, _)
MonthsUpTo(m, endT) ==
  IF MonthStart(m) <= endT THEN <<m>> \o MonthsUpTo(NextMonth(m), endT) ELSE <<>>

\* DataAggregator.js getAllMonthsInRange
getAllMonthsInRange(startDate, endDate) ==
  IF startDate.kind = "null" \/ endDate.kind = "null" THEN <<>>
  ELSE IF startDate.kind = "invalid" \/ endDate.kind = "invalid" THEN <<>>
  ELSE MonthsUpTo(MonthOf(startDate.t), endDate.t)

\* parseInt: optional sign and digits after leading blanks
ParseInt(s) ==
  LET a      == SkipWs(s, 1)
      signed == a <= Len(s) /\ s[a] \in {"-", "+"}
      neg    == a <= Len(s) /\ s[a] = "-"
      b      == IF signed THEN a + 1 ELSE a
      c      == DigitsEnd(s, b)
      mag    == DigitsValue(s, b, c, 0)
  IN  IF c = b THEN NaN ELSE Num(IF neg THEN 0 - mag ELSE mag)

\* x || 0 for a number x
OrZero(x) == IF x.nan \/ x.val = 0 THEN 0 ELSE x.val

-----------------------------------------------------------------------------
(* Aggregation Engine: DataAggregator.aggregateByPremiumBandAndMonth       *)

\* lines 96-101 and 196-199: a record without PremiumBand gets one from its
\* GrossMarginBucket
WithPremiumBand(r) ==
  IF r.PremiumBand = <<>> /\ r.GrossMarginBucket # <<>>
  THEN [r EXCEPT !.PremiumBand = convertMarginBucketToBps(r.GrossMarginBucket)]
  ELSE r

\* the same with the half rounded up
DataToProcessRoundingUp(data, sampleSize) ==
  IF sampleSize > 0 /\ Len(data) > sampleSize
  THEN LET half   == (sampleSize + 1) \div 2
           sample == SubSeq(data, 1, half) \o SubSeq(data, Len(data) - half + 1, Len(data))
       IN  IF Len(sample) > sampleSize THEN SubSeq(sample, 1, sampleSize) ELSE sample
  ELSE data

\* lines 62-76: the head and tail slices when sampling is on
DataToProcess(data, sampleSize) ==
  IF sampleSize > 0 /\ Len(data) > sampleSize
  THEN LET half   == sampleSize \div 2
           sample == SubSeq(data, 1, half) \o SubSeq(data, Len(data) - half + 1, Len(data))
       IN  IF Len(sample) > sampleSize THEN SubSeq(sample, 1, sampleSize) ELSE sample
  ELSE data

\* the key of the band comparator, parseInt(a.split('-')[0]) || 0
BandSortKey(band) == OrZero(ParseInt(Split(band, "-")[1]))

\* lines 92-113: the distinct bands of the processed records, sorted
BandsOf(recs) ==
  LET present == SelectSeq([i \in 1..Len(recs) |-> recs[i].PremiumBand], LAMBDA b : b # <<>>)
      keyed   == [i \in 1..Len(Distinct(present)) |->
                    [k |-> BandSortKey(Distinct(present)[i]), v |-> Distinct(present)[i]]]
      sorted  == SortByKey(keyed)
  IN  [i \in 1..Len(sorted) |-> sorted[i].v]

\* lines 123-143: the distinct months of the valid record dates, sorted
MonthsOfData(recs) ==
  LET valid  == SelectSeq([i \in 1..Len(recs) |-> recs[i].DocumentDate], LAMBDA d : d.kind = "date")
      months == Distinct([i \in 1..Len(valid) |-> MonthOf(valid[i].t)])
      keyed  == [i \in 1..Len(months) |-> [k |-> (months[i][1] * 12) + months[i][2], v |-> months[i]]]
      sorted == SortByKey(keyed)
  IN  [i \in 1..Len(sorted) |-> sorted[i].v]

\* lines 116-144: the months of the report
EffectiveMonths(recs, filterDateRange) ==
  IF Len(filterDateRange) = 2 /\ filterDateRange[1].kind # "null" /\ filterDateRange[2].kind # "null"
  THEN getAllMonthsInRange(filterDateRange[1], filterDateRange[2])
  ELSE MonthsOfData(recs)

EmptyCell == [amount |-> 0, count |-> 0, avgLoanSize |-> Zero]

\* lines 48-55 and 331-339: the result for no data
EmptyAggregate ==
  [premiumBands |-> <<>>, months |-> <<>>, data |-> <<>>,
   totals  |-> [byPremiumBand |-> <<>>, byMonth |-> <<>>, overall |-> 0],
   counts  |-> [byPremiumBand |-> <<>>, byMonth |-> <<>>, overall |-> 0],
   metrics |-> [marketShare |-> <<>>, growthRate |-> <<>>]]

\* lines 163-184: the zeroed structure
InitialAggregate(bands, months) ==
  [premiumBands |-> bands, months |-> months,
   data    |-> [b \in Range(bands) |-> [m \in Range(months) |-> EmptyCell]],
   totals  |-> [byPremiumBand |-> [b \in Range(bands) |-> 0],
                byMonth |-> [m \in Range(months) |-> 0], overall |-> 0],
   counts  |-> [byPremiumBand |-> [b \in Range(bands) |-> 0],
                byMonth |-> [m \in Range(months) |-> 0], overall |-> 0],
   metrics |-> [marketShare |-> <<>>, growthRate |-> <<>>]]

\* lines 258-274 with the band/month total of line 269 left out
AddRecordNoMonthTotal(res, band, month, loanAmount) ==
  [res EXCEPT
     !.data[band][month].amount = @ + loanAmount,
     !.data[band][month].count = @ + 1,
     !.totals.byPremiumBand[band] = @ + loanAmount,
     !.counts.byPremiumBand[band] = @ + 1,
     !.counts.byMonth[month] = @ + 1,
     !.totals.overall = @ + loanAmount,
     !.counts.overall = @ + 1]

\* lines 258-274: one record added to its cell and to the totals
AddRecord(res, band, month, loanAmount) ==
  [res EXCEPT
     !.data[band][month].amount = @ + loanAmount,
     !.data[band][month].count = @ + 1,
     !.totals.byPremiumBand[band] = @ + loanAmount,
     !.counts.byPremiumBand[band] = @ + 1,
     !.totals.byMonth[month] = @ + loanAmount,
     !.counts.byMonth[month] = @ + 1,
     !.totals.overall = @ + loanAmount,
     !.counts.overall = @ + 1]

\* lines 194-279: the body of the aggregation loop for one record
AggregateRecord(res, record) ==
  LET band == record.PremiumBand
      date == record.DocumentDate
  IN  IF band = <<>> \/ ~Contains(res.premiumBands, band) THEN res
      ELSE IF date.kind # "date" THEN res
      ELSE IF ~Contains(res.months, MonthOf(date.t)) THEN res
      ELSE AddRecord(res, band, MonthOf(date.t), OrZero(record.Loan))

RECURSIVE AggregateLoop(_, _, _)
AggregateLoop(res, recs, i) ==
  IF i > Len(recs) THEN res
  ELSE AggregateLoop(AggregateRecord(res, recs[i]), recs, i + 1)

\* lines 282-287 with the band's record count as the divisor
WithAveragesPerBand(res) ==
  [res EXCEPT !.data =
     [b \in DOMAIN res.data |->
        [m \in DOMAIN res.data[b] |->
           [res.data[b][m] EXCEPT !.avgLoanSize =
              IF res.data[b][m].count > 0
              THEN Quotient(res.data[b][m].amount, res.counts.byPremiumBand[b])
              ELSE Zero]]]]

\* lines 282-287: the average loan size of every cell
WithAverages(res) ==
  [res EXCEPT !.data =
     [b \in DOMAIN res.data |->
        [m \in DOMAIN res.data[b] |->
           [res.data[b][m] EXCEPT !.avgLoanSize =
              IF res.data[b][m].count > 0
              THEN Quotient(res.data[b][m].amount, res.data[b][m].count)
              ELSE Zero]]]]

\* lines 292-301: the share of each cell in its month total, in percent
MarketShareOf(res) ==
  [b \in Range(res.premiumBands) |->
     [m \in Range(res.months) |->
        IF res.totals.byMonth[m] > 0
        THEN Quotient(res.data[b][m].amount * 100, res.totals.byMonth[m])
        ELSE Zero]]

\* lines 304-321: month-over-month growth, in percent
GrowthRateOf(res) ==
  IF Len(res.months) > 1
  THEN [b \in Range(res.premiumBands) |->
          [m \in {res.months[i] : i \in 2..Len(res.months)} |->
             LET i   == CHOOSE j \in 2..Len(res.months) : res.months[j] = m
                 cur == res.data[b][res.months[i]].amount
                 prv == res.data[b][res.months[i - 1]].amount
             IN  IF prv > 0 THEN Quotient((cur - prv) * 100, prv) ELSE Zero]]
  ELSE <<>>

\* the records as the call leaves them: the processed ones (all of them, or
\* the head and tail slices) carry a PremiumBand
RecordsAfterAggregate(data, sampleSize) ==
  LET sampled == sampleSize > 0 /\ Len(data) > sampleSize
      half    == sampleSize \div 2
  IN  [i \in 1..Len(data) |->
         IF ~sampled \/ i <= half \/ i > Len(data) - half
         THEN WithPremiumBand(data[i]) ELSE data[i]]

\* lines 81-328: the aggregation of the records chosen for processing
AggregateChosen(chosen, includeCountMetrics, filterDateRange) ==
  LET recs   == [i \in 1..Len(chosen) |-> WithPremiumBand(chosen[i])]
      bands  == BandsOf(recs)
      months == EffectiveMonths(recs, filterDateRange)
      summed == WithAverages(AggregateLoop(InitialAggregate(bands, months), recs, 1))
  IN  IF includeCountMetrics
      THEN [summed EXCEPT !.metrics =
              [marketShare |-> MarketShareOf(summed), growthRate |-> GrowthRateOf(summed)]]
      ELSE summed

\* DataAggregator.aggregateByPremiumBandAndMonth(data, options)
aggregateByPremiumBandAndMonth(data, sampleSize, includeCountMetrics, filterDateRange) ==
  IF Len(data) = 0 THEN EmptyAggregate
  ELSE AggregateChosen(DataToProcess(data, sampleSize), includeCountMetrics, filterDateRange)

\* lines 329-340: the result of the outer catch
ErrorAggregate == ("error" :> TRUE) @@ EmptyAggregate

\* the collection with a null element put at position nullAt
WithNullAt(data, nullAt) ==
  SubSeq(data, 1, nullAt - 1) \o <<Null>> \o SubSeq(data, nullAt, Len(data))

\* aggregateByPremiumBandAndMonth for a collection with a null element:
\* r.PremiumBand of line 97 throws for it, outside the try of the record
\* loop, and the catch of line 329 returns
aggregateWithNullRecord(data, nullAt, sampleSize, includeCountMetrics, filterDateRange) ==
  LET chosen == DataToProcess(WithNullAt(data, nullAt), sampleSize)
  IN  IF Contains(chosen, Null) THEN ErrorAggregate
      ELSE AggregateChosen(chosen, includeCountMetrics, filterDateRange)

\* the records as that call leaves them: the chosen ones before the null
\* element carry a PremiumBand (all chosen ones when it is not among them)
RecordsAfterNullRecord(data, nullAt, sampleSize) ==
  LET full   == WithNullAt(data, nullAt)
      n      == Len(full)
      half   == sampleSize \div 2
      sampled(i) == IF sampleSize > 0 /\ n > sampleSize
                    THEN i <= half \/ i > n - half ELSE TRUE
      thrown == Contains(DataToProcess(full, sampleSize), Null)
      at(i)  == IF i < nullAt THEN i ELSE i + 1
  IN  [i \in 1..Len(data) |->
         IF sampled(at(i)) /\ (~thrown \/ at(i) < nullAt)
         THEN WithPremiumBand(data[i]) ELSE data[i]]

-----------------------------------------------------------------------------
(* Aggregation Engine: DataAggregator.calculateWeightedAverages            *)

Ltv == <<"l", "t", "v">>

Rate == <<"r", "a", "t", "e">>

TermMetric == <<"t", "e", "r", "m">>

InitialRateField == <<"I", "n", "i", "t", "i", "a", "l", "R", "a", "t", "e">>

\* record[name] for a column name given as a string
Field(record, name) ==
  IF name = <<"L", "T", "V">> THEN record.LTV
  ELSE IF name = <<"T", "e", "r", "m">> THEN record.Term
  ELSE IF name = <<"L", "o", "a", "n">> THEN record.Loan
  ELSE IF name = InitialRateField THEN record.InitialRate
  ELSE NaN

\* lines 551-563: the metric's column; COLUMN_MAP has the keys ltv and term
\* and no key rate, so record[COLUMN_MAP.rate] is undefined
MetricValue(record, metric) ==
  IF metric = Ltv THEN OrZero(Field(record, <<"L", "T", "V">>))
  ELSE IF metric = Rate THEN OrZero(NaN)
  ELSE IF metric = TermMetric THEN OrZero(Field(record, <<"T", "e", "r", "m">>))
  ELSE OrZero(Field(record, metric))

\* lines 462-475: the distinct bands of all records, sorted
WeightedBands(data) ==
  LET present == SelectSeq([i \in 1..Len(data) |-> data[i].PremiumBand], LAMBDA b : b # <<>>)
      keyed   == [i \in 1..Len(Distinct(present)) |->
                    [k |-> BandSortKey(Distinct(present)[i]), v |-> Distinct(present)[i]]]
      sorted  == SortByKey(keyed)
  IN  [i \in 1..Len(sorted) |-> sorted[i].v]

\* lines 489-495 after the clean-up of lines 608-609 (weightedSum is
\* undefined in the code until a record contributes; 0 here)
EmptyMetric == [weightedAvg |-> Zero, totalWeight |-> 0, count |-> 0,
                weightedSum |-> 0, min |-> 0, max |-> 0]

Smaller(a, b) == IF a < b THEN a ELSE b

Larger(a, b) == IF a > b THEN a ELSE b

\* lines 569-574: one record added to the running sums of its band
AddToMetric(m, loanAmount, value) ==
  [m EXCEPT !.totalWeight = @ + loanAmount,
            !.count = @ + 1,
            !.weightedSum = @ + (loanAmount * value),
            !.min = IF m.count = 0 THEN value ELSE Smaller(@, value),
            !.max = IF m.count = 0 THEN value ELSE Larger(@, value)]

\* lines 539-597 for one metric and one band
RECURSIVE MetricLoop(_, _, _, _, _)
MetricLoop(m, data, i, metric, band) ==
  IF i > Len(data) THEN m
  ELSE LET record     == data[i]
           loanAmount == OrZero(record.Loan)
           value      == MetricValue(record, metric)
       IN  IF record.PremiumBand # band \/ loanAmount <= 0 \/ value <= 0
           THEN MetricLoop(m, data, i + 1, metric, band)
           ELSE MetricLoop(AddToMetric(m, loanAmount, value), data, i + 1, metric, band)

\* lines 600-610: the weighted average of the running sums
Finished(m) ==
  IF m.totalWeight > 0
  THEN [m EXCEPT !.weightedAvg = Quotient(m.weightedSum, m.totalWeight)]
  ELSE m

\* the records of one month (lines 577-595 accumulate the same sums per month)
InMonth(data, month) ==
  SelectSeq(data, LAMBDA r : r.DocumentDate.kind = "date" /\ MonthOf(r.DocumentDate.t) = month)

EmptyWeighted == [premiumBands |-> <<>>, metrics |-> <<>>, monthly |-> <<>>]

\* DataAggregator.calculateWeightedAverages(data, {metrics, includeMonthly})
calculateWeightedAverages(data, metrics, includeMonthly) ==
  IF Len(data) = 0 THEN EmptyWeighted
  ELSE
    LET bands  == WeightedBands(data)
        months == IF includeMonthly THEN MonthsOfData(data) ELSE <<>>
    IN  [premiumBands |-> bands,
         metrics |-> [metric \in Range(metrics) |->
                        [b \in Range(bands) |->
                           Finished(MetricLoop(EmptyMetric, data, 1, metric, b))]],
         monthly |-> IF includeMonthly
                     THEN [metric \in Range(metrics) |->
                             [b \in Range(bands) |->
                                [mo \in Range(months) |->
                                   LET f == Finished(MetricLoop(EmptyMetric, InMonth(data, mo), 1, metric, b))
                                   IN  [weightedAvg |-> f.weightedAvg,
                                        totalWeight |-> f.totalWeight, count |-> f.count]]]]
                     ELSE <<>>]

-----------------------------------------------------------------------------
(* Filter Engine: FilterManager and DataManager (DataManager.js)           *)

Has(filters, key) == key \in DOMAIN filters

\* the two labels that are never shown
IsExcludedBand(band) ==
  band = Unknown \/ band = <<"-", "0", ".", "4", "-", "-", "0", ".", "2">>

\* filters.dateRange && filters.dateRange[0] && filters.dateRange[1]
HasDateRange(filters) ==
  /\ Has(filters, "dateRange")
  /\ filters.dateRange[1].kind # "null"
  /\ filters.dateRange[2].kind # "null"

\* FilterManager.updateActiveFilters: the dimensions that restrict
updateActiveFilters(filters) ==
  (IF HasDateRange(filters) THEN {"dateRange"} ELSE {})
  \cup (IF /\ Has(filters, "lenders")
           /\ Len(filters.lenders) > 0
           /\ ~Contains(filters.lenders, "all_lenders")
        THEN {"lenders"} ELSE {})
  \cup (IF Has(filters, "ltvRange") /\ filters.ltvRange # "" /\ filters.ltvRange # "all"
        THEN {"ltvRange"} ELSE {})
  \cup (IF /\ Has(filters, "purchaseTypes")
           /\ Len(filters.purchaseTypes) > 0
           /\ ~Contains(filters.purchaseTypes, "all_purchase_types")
        THEN {"purchaseTypes"} ELSE {})

\* startDate.setHours(0, 0, 0, 0)
StartOfDay(t) == DayOf(t) * TicksPerDay

\* endDate.setHours(23, 59, 59, 999)
EndOfDay(t) == (DayOf(t) * TicksPerDay) + (TicksPerDay - 1)

\* FilterManager.filterData lines 617-620; new Date(null) is 1 January 1970,
\* before every start, and no comparison with an Invalid Date holds
InDateRangeByDay(record, filters) ==
  /\ record.DocumentDate.kind = "date"
  /\ filters.dateRange[1].kind = "date"
  /\ filters.dateRange[2].kind = "date"
  /\ record.DocumentDate.t >= StartOfDay(filters.dateRange[1].t)
  /\ record.DocumentDate.t <= EndOfDay(filters.dateRange[2].t)

\* FilterManager.filterData lines 633-650
LtvInBucket(record, ltvRange) ==
  /\ ~record.LTV.nan
  /\ CASE ltvRange = "below-80" -> record.LTV.val < 80
       [] ltvRange = "above-80" -> record.LTV.val >= 80
       [] ltvRange = "above-85" -> record.LTV.val >= 85
       [] ltvRange = "above-90" -> record.LTV.val >= 90
       [] OTHER -> TRUE

\* FilterManager.filterData lines 608-621: the date range stage
FilterByDate(data, filters, active) ==
  IF "dateRange" \in active /\ HasDateRange(filters)
  THEN SelectSeq(data, LAMBDA r : InDateRangeByDay(r, filters))
  ELSE data

\* FilterManager.filterData lines 624-629: the lender stage
FilterByLender(data, filters, active) ==
  IF /\ "lenders" \in active
     /\ Has(filters, "lenders")
     /\ Len(filters.lenders) > 0
     /\ ~Contains(filters.lenders, "all_lenders")
  THEN SelectSeq(data, LAMBDA r : Contains(filters.lenders, r.BaseLender))
  ELSE data

\* removal by splice inside a forward loop: the record that follows a removed
\* one is not looked at
RECURSIVE SpliceLoop(_, _, _)
SpliceLoop(data, i, ltvRange) ==
  IF i > Len(data) THEN data
  ELSE IF LtvInBucket(data[i], ltvRange) THEN SpliceLoop(data, i + 1, ltvRange)
  ELSE SpliceLoop(SubSeq(data, 1, i - 1) \o SubSeq(data, i + 1, Len(data)), i + 1, ltvRange)

\* the LTV stage written as that loop
FilterByLtvSplicing(data, filters, active) ==
  IF /\ "ltvRange" \in active
     /\ Has(filters, "ltvRange")
     /\ filters.ltvRange # "" /\ filters.ltvRange # "all"
  THEN SpliceLoop(data, 1, filters.ltvRange)
  ELSE data

\* FilterManager.filterData lines 632-651: the LTV stage
FilterByLtv(data, filters, active) ==
  IF /\ "ltvRange" \in active
     /\ Has(filters, "ltvRange")
     /\ filters.ltvRange # "" /\ filters.ltvRange # "all"
  THEN SelectSeq(data, LAMBDA r : LtvInBucket(r, filters.ltvRange))
  ELSE data

\* FilterManager.filterData lines 654-680: the purchase type stage
FilterByType(data, filters, active) ==
  IF /\ "purchaseTypes" \in active
     /\ Has(filters, "purchaseTypes")
     /\ Len(filters.purchaseTypes) > 0
     /\ ~Contains(filters.purchaseTypes, "all_purchase_types")
  THEN SelectSeq(data, LAMBDA r : Contains(filters.purchaseTypes, r.PurchaseType))
  ELSE data

\* FilterManager.filterData(data, filters) with this.activeFilters = active
FilterManager_filterData(data, filters, active) ==
  FilterByType(
    FilterByLtv(
      FilterByLender(
        FilterByDate(data, filters, active), filters, active), filters, active),
    filters, active)

\* DataManager.filterData lines 337-386: the predicate of data.filter
DataManager_keeps(record, filters) ==
  /\ ~IsExcludedBand(record.PremiumBand)
  /\ HasDateRange(filters) =>
       /\ record.DocumentDate.kind = "date"
       /\ filters.dateRange[1].kind = "date"
       /\ filters.dateRange[2].kind = "date"
       /\ record.DocumentDate.t >= filters.dateRange[1].t
       /\ record.DocumentDate.t <= filters.dateRange[2].t
  /\ (Has(filters, "lenders") /\ Len(filters.lenders) > 0) =>
       Contains(filters.lenders, record.BaseLender)
  /\ (Has(filters, "ltvRange") /\ filters.ltvRange # "" /\ filters.ltvRange # "all") =>
       /\ ~record.LTV.nan
       /\ ~(filters.ltvRange = "below-80" /\ record.LTV.val >= 80)
       /\ ~(filters.ltvRange = "above-80" /\ record.LTV.val < 80)
       /\ ~(filters.ltvRange = "above-85" /\ record.LTV.val <= 85)
       /\ ~(filters.ltvRange = "above-90" /\ record.LTV.val <= 90)
  /\ (Has(filters, "premiumBands") /\ Len(filters.premiumBands) > 0) =>
       (record.PremiumBand # <<>> /\ Contains(filters.premiumBands, record.PremiumBand))
  /\ (Has(filters, "purchaseTypes") /\ Len(filters.purchaseTypes) > 0) =>
       Contains(filters.purchaseTypes, record.PurchaseType)

\* DataManager.filterData(data, filters)
DataManager_filterData(data, filters) ==
  SelectSeq(data, LAMBDA r : DataManager_keeps(r, filters))

\* DataManager.aggregateData(data) lines 253-286: the value stored in
\* state.data.aggregated (the state's dateRange becomes filterDateRange)
aggregateData(data, filters) ==
  IF Len(data) = 0 THEN Null
  ELSE aggregateByPremiumBandAndMonth(data, 0, TRUE,
         IF Has(filters, "dateRange") THEN filters.dateRange ELSE <<>>)

-----------------------------------------------------------------------------
(* Records                                                                 *)

Rec(lender, loan, ltv, date, ptype, band, bucket, rate, term) ==
  [BaseLender |-> lender, Loan |-> loan, LTV |-> ltv, DocumentDate |-> date,
   PurchaseType |-> ptype, PremiumBand |-> band, GrossMarginBucket |-> bucket,
   InitialRate |-> rate, Term |-> term]

Band_0_20 == <<"0", "-", "2", "0">>

Band_160_180 == <<"1", "6", "0", "-", "1", "8", "0">>

Bucket_16_18 == <<"1", ".", "6", "-", "1", ".", "8">>

Band_Excluded == <<"-", "0", ".", "4", "-", "-", "0", ".", "2">>

LenderA == "Lender A"

LenderB == "Lender B"

Purchase == "Purchase"

Remortgage == "Remortgage"

RECURSIVE SeqsUpTo(_, _)
SeqsUpTo(S, n) ==
  IF n = 0 THEN {<<>>}
  ELSE LET shorter == SeqsUpTo(S, n - 1)
       IN  shorter \cup {Append(q, x) : q \in shorter, x \in S}

NoOptions == [call |-> "none"]

EngineIdle ==
  /\ rawData = <<>>
  /\ op = "none"
  /\ options = NoOptions
  /\ aggregated = EmptyAggregate
  /\ weighted = EmptyWeighted

\* StateManager constructor lines 14-18, and FilterManager constructor
InitialFilters == [dateRange |-> <<NoDate, NoDate>>, lenders |-> <<>>, ltvRange |-> "all"]

FilterIdle ==
  /\ stateFilters = InitialFilters
  /\ activeFilters = {}
  /\ filtered = <<>>
  /\ refiltered = <<>>

TableIdle ==
  /\ marketShare = Null
  /\ tableData = <<>>

LoaderIdle ==
  /\ datasets = <<>>
  /\ combined = <<>>

PanelIdle ==
  /\ lenderCheckboxes = {}
  /\ purchaseTypeCheckboxes = {}
  /\ pendingApply = FALSE

\* an object without properties, a Map without keys
EmptyMap == [x \in {} |-> 0]

\* StateManager constructor: the state tree, a leaf that is no object being
\* a value of its own
InitialState ==
  [data    |-> [raw |-> Null, filtered |-> Null, aggregated |-> Null],
   filters |-> InitialFilters,
   ui      |-> [loading |-> FALSE, selectedView |-> "table", selectedPremiumBands |-> <<>>]]

ManagerIdle ==
  /\ state = InitialState
  /\ subscribers = EmptyMap
  /\ calls = <<>>

\* FilterManager constructor line 491, and no call of getFilterOptions yet
OptionsIdle ==
  /\ gettingFilterOptions = FALSE
  /\ invocations = <<>>
  /\ returned = <<>>

ComponentsIdle ==
  /\ TableIdle
  /\ LoaderIdle
  /\ PanelIdle
  /\ ManagerIdle
  /\ OptionsIdle

BandIdle ==
  /\ bandSrc = <<>>
  /\ bandIn = <<>>
  /\ bandOut = <<>>
  /\ bandOp = "none"

-----------------------------------------------------------------------------
(* Cross-tab: MarketShareTable.calculateMarketShare and render             *)

Segments == {"total", "ltv_under_80", "ltv_over_80"}

\* { total: {amount: 0, count: 0}, ltv_under_80: {...}, ltv_over_80: {...} }
EmptySegments == [seg \in Segments |-> [amount |-> 0, count |-> 0]]

\* the same with 80 itself in the lower segment
LtvSegmentUpTo80(record) ==
  IF ~record.LTV.nan /\ record.LTV.val <= 80 THEN "ltv_under_80" ELSE "ltv_over_80"

\* lines 89: the LTV segment of a record
LtvSegment(record) ==
  IF ~record.LTV.nan /\ record.LTV.val < 80 THEN "ltv_under_80" ELSE "ltv_over_80"

\* the same without the addition to the total
AddToSegmentsWithoutTotal(cells, seg, loanAmount) ==
  [cells EXCEPT ![seg] = [amount |-> @.amount + loanAmount, count |-> @.count + 1]]

\* amount += loanAmount; count++ for the record's segment and for the total
AddToSegments(cells, seg, loanAmount) ==
  [cells EXCEPT ![seg]     = [amount |-> @.amount + loanAmount, count |-> @.count + 1],
                !["total"] = [amount |-> @.amount + loanAmount, count |-> @.count + 1]]

\* lines 47-52 and 56-62: nothing counted yet
EmptyMarketShare(selectedPremiumBands) ==
  [lenderData |-> EmptyMap, bandTotals |-> EmptyMap, overallTotals |-> EmptySegments,
   uniqueLenders |-> {}, selectedPremiumBands |-> selectedPremiumBands]

\* lines 64-120: the body of data.forEach for one record
AddToCrossTab(res, record) ==
  LET lender     == record.BaseLender
      band       == record.PremiumBand
      loanAmount == OrZero(record.Loan)
      seg        == LtvSegment(record)
      ofLender   == IF lender \in DOMAIN res.lenderData THEN res.lenderData[lender]
                    ELSE [bands |-> EmptyMap, overall_total |-> EmptySegments]
      ofBand     == IF band \in DOMAIN ofLender.bands THEN ofLender.bands[band]
                    ELSE EmptySegments
      bandTotal  == IF band \in DOMAIN res.bandTotals THEN res.bandTotals[band]
                    ELSE EmptySegments
  IN  IF lender = "" \/ band = <<>> \/ ~Contains(res.selectedPremiumBands, band)
      THEN res
      ELSE [res EXCEPT
              !.uniqueLenders = @ \cup {lender},
              !.lenderData = (lender :>
                  [bands |-> (band :> AddToSegments(ofBand, seg, loanAmount)) @@ ofLender.bands,
                   overall_total |-> AddToSegments(ofLender.overall_total, seg, loanAmount)])
                  @@ @,
              !.bandTotals = (band :> AddToSegments(bandTotal, seg, loanAmount)) @@ @,
              !.overallTotals = AddToSegments(@, seg, loanAmount)]

RECURSIVE CrossTabLoop(_, _, _)
CrossTabLoop(res, data, i) ==
  IF i > Len(data) THEN res
  ELSE CrossTabLoop(AddToCrossTab(res, data[i]), data, i + 1)

\* the lender names of the model in the order of Array.prototype.sort
LenderOrder == <<LenderA, LenderB>>

\* MarketShareTable.calculateMarketShare(data, selectedPremiumBands)
calculateMarketShare(data, selectedPremiumBands) ==
  IF Len(data) = 0 \/ Len(selectedPremiumBands) = 0
  THEN [EmptyMarketShare(selectedPremiumBands) EXCEPT !.uniqueLenders = <<>>]
  ELSE LET res == CrossTabLoop(EmptyMarketShare(selectedPremiumBands), data, 1)
       IN  [res EXCEPT !.uniqueLenders = SelectSeq(LenderOrder, LAMBDA l : l \in @)]

\* render lines 328-334: '-20-0', '0-20', ..., '520-540'
VisiblePremiumBands ==
  [i \in 1..28 |-> NumToStr((i - 2) * 20) \o <<"-">> \o NumToStr((i - 1) * 20)]

\* x?.amount || 0 for the segment of a band that may be missing
AmountIn(byBand, band, seg) ==
  IF band \in DOMAIN byBand THEN byBand[band][seg].amount ELSE 0

\* the share written as a percentage, 0 to 100
ShareCellInPercent(amount, total) ==
  [amount |-> amount,
   percentage |-> IF total > 0 THEN Quotient(amount * 100, total) ELSE Zero]

\* { amount, percentage: total > 0 ? amount / total : 0 }
ShareCell(amount, total) ==
  [amount |-> amount, percentage |-> IF total > 0 THEN Quotient(amount, total) ELSE Zero]

\* render lines 353-391: the row of one lender
LenderRow(ms, lender, bands) ==
  LET own == IF lender \in DOMAIN ms.lenderData THEN ms.lenderData[lender]
             ELSE [bands |-> EmptyMap, overall_total |-> EmptySegments]
  IN  [lenderName |-> lender,
       pb |-> [b \in Range(bands) |-> [seg \in Segments |->
                 ShareCell(AmountIn(own.bands, b, seg), AmountIn(ms.bandTotals, b, seg))]],
       overall_total |-> [seg \in Segments |->
                 ShareCell(own.overall_total[seg].amount, ms.overallTotals[seg].amount)]]

\* { amount, percentage: amount > 0 ? 1 : 0 }
TotalCell(amount) ==
  [amount |-> amount, percentage |-> IF amount > 0 THEN Quotient(1, 1) ELSE Zero]

\* render lines 394-404: the "Total Market" row
TotalMarketRow(ms, bands) ==
  [lenderName |-> "Total Market",
   pb |-> [b \in Range(bands) |-> [seg \in Segments |->
             TotalCell(AmountIn(ms.bandTotals, b, seg))]],
   overall_total |-> [seg \in Segments |-> TotalCell(ms.overallTotals[seg].amount)]]

\* render line 339: the selected bands that are visible
FilteredPremiumBands(ms) ==
  SelectSeq(ms.selectedPremiumBands, LAMBDA b : Contains(VisiblePremiumBands, b))

\* MarketShareTable.render(marketShareData): the rows given to the table
\* (no table when no selected band is visible)
render(ms) ==
  LET bands == FilteredPremiumBands(ms)
  IN  IF Len(bands) = 0 THEN <<>>
      ELSE [i \in 1..(Len(ms.uniqueLenders) + 1) |->
              IF i <= Len(ms.uniqueLenders) THEN LenderRow(ms, ms.uniqueLenders[i], bands)
              ELSE TotalMarketRow(ms, bands)]

-----------------------------------------------------------------------------
(* Ingestion: DataLoader.combineAndProcess (DataAggregator.js)             *)
(* Records are objects; numeric fields hold numbers.  Of the identifier    *)
(* fields of isValidRecord a record has BaseLender and DocumentDate only.  *)

\* DataLoader.isValidRecord lines 981-992 for a record that is an object
isValidRecord(record) ==
  record.BaseLender # "" \/ record.DocumentDate.kind # "null"

\* lines 872-876: all records of all datasets, in order
RECURSIVE Flatten(_)
Flatten(sets) ==
  IF sets = <<>> THEN <<>> ELSE Head(sets) \o Flatten(Tail(sets))

\* lines 903-908: date.toISOString().split('T')[0], the day of a valid date
ToIsoDay(date) ==
  IF date.kind = "date" THEN DateAt(StartOfDay(date.t)) ELSE date

\* lines 893-911: the fields of a processed record
ProcessRecord(record) ==
  [record EXCEPT
     !.PremiumBand = IF record.GrossMarginBucket # <<>>
                     THEN convertMarginBucketToBps(record.GrossMarginBucket) ELSE @,
     !.DocumentDate = ToIsoDay(@)]

\* lines 884-914: invalid records are passed over when validation is on
ProcessAll(records, validateData) ==
  [i \in 1..Len(records) |->
     IF validateData /\ ~isValidRecord(records[i]) THEN records[i]
     ELSE ProcessRecord(records[i])]

\* DataLoader.deduplicateRecords: the first record of every key; Provider,
\* Product_Name and Rate are absent, so the key is the DocumentDate
RECURSIVE deduplicateRecords(_)
deduplicateRecords(records) ==
  IF records = <<>> THEN <<>>
  ELSE LET front == deduplicateRecords(SubSeq(records, 1, Len(records) - 1))
           last  == records[Len(records)]
       IN  IF \E i \in 1..Len(front) : front[i].DocumentDate = last.DocumentDate
           THEN front ELSE Append(front, last)

\* new Date(a.DocumentDate) - new Date(b.DocumentDate) is NaN as soon as one
\* date is missing or invalid, and sort takes NaN for 0; the comparator is
\* a consistent one when no date is invalid or all valid dates are equal
ConsistentComparator(records) ==
  \/ \A i \in 1..Len(records) : records[i].DocumentDate.kind = "date"
  \/ \A i, j \in 1..Len(records) :
       (records[i].DocumentDate.kind = "date" /\ records[j].DocumentDate.kind = "date")
         => records[i].DocumentDate.t = records[j].DocumentDate.t

Orders(records) ==
  {[i \in 1..Len(records) |-> records[p[i]]] :
     p \in {q \in [1..Len(records) -> 1..Len(records)] :
              \A i, j \in 1..Len(records) : q[i] = q[j] => i = j}}

\* line 930: the orders Array.prototype.sort may leave the records in (the
\* stable order for a consistent comparator, an implementation-defined
\* order otherwise)
SortedByDate(records) ==
  IF \A i \in 1..Len(records) : records[i].DocumentDate.kind = "date"
  THEN {LET keyed  == [i \in 1..Len(records) |->
                         [k |-> records[i].DocumentDate.t, v |-> records[i]]]
            sorted == SortByKey(keyed)
        IN  [i \in 1..Len(records) |-> sorted[i].v]}
  ELSE IF ConsistentComparator(records) THEN {records}
  ELSE Orders(records)

\* DataLoader.combineAndProcess(datasets, options): the collections it may
\* return
combineAndProcess(sets, deduplicate, validateData) ==
  LET processed == ProcessAll(Flatten(sets), validateData)
  IN  SortedByDate(IF deduplicate THEN deduplicateRecords(processed) ELSE processed)

\* the datasets after the call: their records were processed in place
RECURSIVE DatasetsAfter(_, _)
DatasetsAfter(sets, validateData) ==
  IF sets = <<>> THEN <<>>
  ELSE <<ProcessAll(Head(sets), validateData)>> \o DatasetsAfter(Tail(sets), validateData)

-----------------------------------------------------------------------------
(* State Manager: StateManager.js.  A dot path 'a.b' is the sequence of    *)
(* its keys <<"a", "b">>, the key '*' of the root subscribers the sequence *)
(* <<"*">>; an object is a function of its property names, a callback a    *)
(* number that tells it from the others.                                   *)

Undefined == [undefined |-> TRUE]

RootKey == <<"*">>

\* lines 68-83: the object with value stored at path, objects on the way
\* being created where there is none
RECURSIVE updateNestedState(_, _, _)
updateNestedState(obj, path, value) ==
  IF Len(path) = 1
  THEN (path[1] :> value) @@ obj
  ELSE LET current == IF path[1] \in DOMAIN obj THEN obj[path[1]] ELSE EmptyMap
       IN  (path[1] :> updateNestedState(current, Tail(path), value)) @@ obj

\* lines 134-144: the loop over the keys of a path
RECURSIVE ValueAt(_, _)
ValueAt(current, parts) ==
  IF parts = <<>> THEN current
  ELSE IF parts[1] \notin DOMAIN current THEN Undefined
  ELSE ValueAt(current[parts[1]], Tail(parts))

\* StateManager.getStateByPath
getStateByPath(st, path) ==
  IF path = <<>> \/ path = RootKey THEN st ELSE ValueAt(st, path)

\* callbacks.forEach(callback => callback(arg)) for the callbacks of a key
CallsOf(subs, key, arg) ==
  IF key \in DOMAIN subs
  THEN [i \in 1..Len(subs[key]) |-> [callback |-> subs[key][i], key |-> key, arg |-> arg]]
  ELSE <<>>

\* lines 98-107: one parent path after the other, the longest first; the
\* empty path is skipped
RECURSIVE ParentCalls(_, _, _)
ParentCalls(subs, st, parts) ==
  IF parts = <<>> THEN <<>>
  ELSE LET parentPath == SubSeq(parts, 1, Len(parts) - 1)
       IN  (IF parentPath # <<>>
            THEN CallsOf(subs, parentPath, getStateByPath(st, parentPath))
            ELSE <<>>)
             \o ParentCalls(subs, st, parentPath)

\* the notification that forgets the parent paths
notifyDirectAndRootOnly(subs, st, changedPath) ==
  CallsOf(subs, changedPath, getStateByPath(st, changedPath))
    \o CallsOf(subs, RootKey, st)

\* StateManager.notifySubscribers: the calls it makes, in order
notifySubscribers(subs, st, changedPath) ==
  CallsOf(subs, changedPath, getStateByPath(st, changedPath))
    \o ParentCalls(subs, st, changedPath)
    \o CallsOf(subs, RootKey, st)


\* resetState lines 165-176: the initial values a path can be reset to
ResetDefaults == [filters |-> InitialState.filters, ui |-> InitialState.ui]

\* resetState lines 152-163: the state a reset without a path stores; the
\* raw collection is kept
resetWholeState(st) ==
  [data    |-> [raw |-> st.data.raw, filtered |-> st.data.raw, aggregated |-> Null],
   filters |-> InitialState.filters,
   ui      |-> InitialState.ui]

\* StateManager.resetState(path): the state it stores and the calls it
\* makes; a path without an initial value changes nothing
resetState(subs, st, path) ==
  IF path = <<>>
  THEN [state |-> resetWholeState(st),
        calls |-> notifySubscribers(subs, resetWholeState(st), RootKey)]
  ELSE LET defaultValue == ValueAt(ResetDefaults, path)
           stored       == updateNestedState(st, path, defaultValue)
       IN  IF defaultValue # Undefined
           THEN [state |-> stored, calls |-> notifySubscribers(subs, stored, path)]
           ELSE [state |-> st, calls |-> <<>>]

\* the callbacks registered under any key
Registered(subs) == UNION {Range(subs[key]) : key \in DOMAIN subs}

\* StateManager.subscribe
subscribe(subs, key, callback) ==
  (key :> Append(IF key \in DOMAIN subs THEN subs[key] ELSE <<>>, callback)) @@ subs

\* the function subscribe returns: indexOf and splice
unsubscribe(subs, key, callback) ==
  LET callbacks == subs[key]
      index     == IF Contains(callbacks, callback)
                   THEN CHOOSE i \in 1..Len(callbacks) :
                          /\ callbacks[i] = callback
                          /\ \A j \in 1..(i - 1) : callbacks[j] # callback
                   ELSE 0
  IN  IF index = 0 THEN subs
      ELSE (key :> (SubSeq(callbacks, 1, index - 1)
                      \o SubSeq(callbacks, index + 1, Len(callbacks)))) @@ subs

-----------------------------------------------------------------------------
(* Filter Panel: FilterPanel (part_007), FilterManager.updateFilter and    *)
(* resetFilters, DataManager.setDateRangeFromData.  A checkbox group is    *)
(* the sequence of its values in document order and the set of the checked *)
(* ones; a stored selection is a sequence of values.                       *)

AllLenders == "all_lenders"

AllPurchaseTypes == "all_purchase_types"

\* createLenderFilter lines 253-302: the 'All Lenders' box, then one box per
\* lender of the filter options
LenderBoxes == <<AllLenders, LenderA, LenderB>>

\* createPurchaseTypesFilter lines 453-502
PurchaseTypeBoxes == <<AllPurchaseTypes, Purchase, Remortgage>>

\* Array.from(boxes).filter(cb => cb.checked && cb.value !== sentinel).map(cb => cb.value)
CheckedValues(boxes, checked, sentinel) ==
  SelectSeq(boxes, LAMBDA v : v \in checked /\ v # sentinel)

\* the body shared by the two change handlers: the browser has toggled the
\* box `value`; the result is the checked boxes the handler leaves and the
\* selection it hands to updateFilter
HandleCheckboxChange(boxes, checked, value, sentinel) ==
  LET toggled  == IF value \in checked THEN checked \ {value} ELSE checked \cup {value}
      selected == CheckedValues(boxes, toggled, sentinel)
  IN  IF value = sentinel
      THEN IF value \in toggled
           THEN [checked |-> {sentinel}, selection |-> <<sentinel>>]
           ELSE IF selected = <<>>
                THEN [checked |-> toggled \cup {sentinel}, selection |-> <<sentinel>>]
                ELSE [checked |-> toggled, selection |-> selected]
      ELSE IF value \in toggled
           THEN [checked   |-> IF Contains(boxes, sentinel) THEN toggled \ {sentinel} ELSE toggled,
                 selection |-> selected]
           ELSE IF selected = <<>> /\ Contains(boxes, sentinel)
                THEN [checked |-> toggled \cup {sentinel}, selection |-> <<sentinel>>]
                ELSE [checked |-> toggled, selection |-> selected]

\* part_007 lines 631-705
handleLenderCheckboxChange(checked, value) ==
  HandleCheckboxChange(LenderBoxes, checked, value, AllLenders)

\* part_007 lines 712-786
handlePurchaseTypeCheckboxChange(checked, value) ==
  HandleCheckboxChange(PurchaseTypeBoxes, checked, value, AllPurchaseTypes)

\* FilterManager.updateFilter: a filter name state.filters does not hold is
\* refused and nothing is stored
updateFilter(filters, filterName, value) ==
  IF Has(filters, filterName)
  THEN [ok |-> TRUE, filters |-> (filterName :> value) @@ filters]
  ELSE [ok |-> FALSE, filters |-> filters]

\* updateFilterSelections and the checked state createLenderFilter gives
\* the boxes: 'all' when the selection is missing, empty or holds the
\* sentinel
UsingAll(filters, key, sentinel) ==
  \/ ~Has(filters, key)
  \/ filters[key] = <<>>
  \/ Contains(filters[key], sentinel)

\* FilterPanel.updateFilterSelections, the subscriber of 'filters'
updateFilterSelections(filters, key, boxes, sentinel) ==
  IF UsingAll(filters, key, sentinel)
  THEN {sentinel}
  ELSE {v \in Range(boxes) : Contains(filters[key], v)}

\* createLenderFilter lines 263-266 and 289-291, createPurchaseTypesFilter
\* lines 463-466 and 489-491: the boxes a render checks
RenderedBoxes(filters, key, boxes, sentinel) ==
  (IF UsingAll(filters, key, sentinel) THEN {sentinel} ELSE {})
    \cup (IF Has(filters, key)
          THEN {v \in Range(boxes) : v # sentinel /\ Contains(filters[key], v)}
          ELSE {})

\* the timestamps setDateRangeFromData keeps: records with a DocumentDate
\* that parses
ValidTimestamps(data) ==
  {data[i].DocumentDate.t : i \in {j \in 1..Len(data) : data[j].DocumentDate.kind = "date"}}

MinOf(S) == CHOOSE x \in S : \A y \in S : x <= y

MaxOf(S) == CHOOSE x \in S : \A y \in S : y <= x

\* DataManager.setDateRangeFromData
setDateRangeFromData(filters, data) ==
  IF ValidTimestamps(data) = {}
  THEN filters
  ELSE [filters EXCEPT !.dateRange = <<DateAt(MinOf(ValidTimestamps(data))),
                                       DateAt(MaxOf(ValidTimestamps(data)))>>]

\* getDefaultFilterOptions lines 837-838: new Date('2024-01-01')
DefaultMinDate == DateAt(MonthStart(<<2024, 1>>))

\* new Date('2025-05-31'): the start of the last day of May 2025
DefaultMaxDate == DateAt(MonthStart(<<2025, 6>>) - TicksPerDay)

\* FilterManager.getDefaultFilterOptions, the fields resetFilters reads
getDefaultFilterOptions ==
  [lenders       |-> <<AllLenders>>,
   purchaseTypes |-> <<AllPurchaseTypes>>,
   dateRange     |-> [min |-> DefaultMinDate, max |-> DefaultMaxDate]]

\* FilterManager.resetFilters: the object it stores at 'filters'
resetFilters ==
  [dateRange     |-> <<getDefaultFilterOptions.dateRange.min,
                       getDefaultFilterOptions.dateRange.max>>,
   lenders       |-> <<AllLenders>>,
   ltvRange      |-> "all",
   purchaseTypes |-> <<AllPurchaseTypes>>]


-----------------------------------------------------------------------------
(* Filter options: FilterManager.getFilterOptions (DataManager.js) and     *)
(* sortPremiumBands (sortUtils.js)                                         *)

\* parsePremiumBandRange(rangeStr).min: parseFloat of the match of
\* /^(-?\d*\.?\d+)/, which takes neither leading blanks nor a plus sign
parsePremiumBandMin(rangeStr) ==
  IF rangeStr = <<>> \/ rangeStr[1] \in {" ", "+"} THEN NaN ELSE ParseFloat(rangeStr)

\* [...bands].sort(comparePremiumBands): the bands without a lower bound
\* first, in their order, then the others by their lower bound
sortPremiumBands(bands) ==
  LET unparsed == SelectSeq(bands, LAMBDA b : parsePremiumBandMin(b).nan)
      parsed   == SelectSeq(bands, LAMBDA b : ~parsePremiumBandMin(b).nan)
      sorted   == SortByKey([i \in 1..Len(parsed) |->
                               [k |-> parsePremiumBandMin(parsed[i]).val, v |-> parsed[i]]])
  IN  unparsed \o [i \in 1..Len(sorted) |-> sorted[i].v]

\* the purchase types of the model in the order of Array.prototype.sort
PurchaseTypeOrder == <<Purchase, Remortgage>>

\* getFilterOptions lines 735-820: the value of the try block, computed from
\* state.data.filtered || state.data.raw
FilterOptionsOf(data) ==
  IF Len(data) = 0 THEN getDefaultFilterOptions
  ELSE [lenders       |-> SelectSeq(LenderOrder,
                            LAMBDA l : \E i \in 1..Len(data) : data[i].BaseLender = l),
        purchaseTypes |-> SelectSeq(PurchaseTypeOrder,
                            LAMBDA t : \E i \in 1..Len(data) : data[i].PurchaseType = t),
        premiumBands  |-> sortPremiumBands(Distinct(
                            SelectSeq([i \in 1..Len(data) |-> data[i].PremiumBand],
                                      LAMBDA b : b # <<>>))),
        dateRange     |-> getDefaultFilterOptions.dateRange]

-----------------------------------------------------------------------------
(* Inputs of the Field Normalizer: labels built from at most MaxTokens     *)
(* pieces                                                                  *)

Tokens ==
  { <<"-">>, <<"0", ".", "0">>, <<"0", ".", "2">>, <<"0", ".", "4">>,
    <<"1", ".", "6">>, <<"1", ".", "8">>, <<"2", "0">>, <<"x">> }

RECURSIVE Labels(_)
Labels(n) ==
  IF n = 0 THEN {<<>>}
  ELSE LET shorter == Labels(n - 1)
       IN  shorter \cup {l \o t : l \in shorter, t \in Tokens}

\* the model's integers hold a label's numbers only when no run of digits is
\* longer than four (a conversion appends two digits)
RECURSIVE LongestDigitRun(_, _, _, _)
LongestDigitRun(s, i, run, best) ==
  IF i > Len(s) THEN (IF run > best THEN run ELSE best)
  ELSE IF IsDigit(s[i]) THEN LongestDigitRun(s, i + 1, run + 1, best)
  ELSE LongestDigitRun(s, i + 1, 0, IF run > best THEN run ELSE best)

BandLabels == {l \in Labels(MaxTokens) : LongestDigitRun(l, 1, 0, 0) <= 4}

BandInit ==
  /\ bandSrc \in BandLabels
  /\ bandIn = bandSrc
  /\ bandOut = <<>>
  /\ bandOp = "none"
  /\ EngineIdle
  /\ FilterIdle
  /\ ComponentsIdle

\* a call convertMarginBucketToBps(bandSrc); every caller passes a non-empty
\* bucket (DataManager.processData, DataAggregator, DataLoader)
ConvertBucket ==
  /\ bandOp = "none"
  /\ bandSrc # <<>>
  /\ bandIn' = bandSrc
  /\ bandOut' = convertMarginBucketToBps(bandSrc)
  /\ bandOp' = "convert"
  /\ UNCHANGED <<bandSrc, engineVars, filterVars, componentVars>>

\* a call standardizePremiumBand(bandSrc); the callers pass a non-empty label
StandardizeBand ==
  /\ bandOp = "none"
  /\ bandSrc # <<>>
  /\ bandIn' = bandSrc
  /\ bandOut' = standardizePremiumBand(bandSrc)
  /\ bandOp' = "standardize"
  /\ UNCHANGED <<bandSrc, engineVars, filterVars, componentVars>>

\* a second call, on the label the first call returned
StandardizeAgain ==
  /\ bandOp = "standardize"
  /\ bandIn' = bandOut
  /\ bandOut' = standardizePremiumBand(bandOut)
  /\ bandOp' = "standardize2"
  /\ UNCHANGED <<bandSrc, engineVars, filterVars, componentVars>>

vars == <<bandVars, engineVars, filterVars, componentVars>>

BandNext == ConvertBucket \/ StandardizeBand \/ StandardizeAgain

SpecBand == BandInit /\ [][BandNext]_vars

-----------------------------------------------------------------------------
(* Inputs of the Aggregation Engine: collections of at most MaxRecords     *)
(* records that differ in band, document date and loan amount              *)

\* a band already on the record, and one still to be derived from the bucket
AggBands == {<<Band_0_20, <<>>>>, <<<<>>, Bucket_16_18>>}

AggDates == {InvalidDate, DateAt(1), DateAt((DaysPerMonth * TicksPerDay) + 1)}

AggLoans == {NaN, Num(-100), Num(100), Num(300)}

AggRecords ==
  {Rec(LenderA, l, Num(75), d, Purchase, b[1], b[2], Num(5), Num(2)) :
     l \in AggLoans, d \in AggDates, b \in AggBands}

\* the second and third month of the calendar, whatever the data holds
ReportRange ==
  <<DateAt(DaysPerMonth * TicksPerDay), DateAt((3 * DaysPerMonth * TicksPerDay) - 1)>>

AggInit ==
  /\ rawData \in SeqsUpTo(AggRecords, MaxRecords)
  /\ op = "none"
  /\ options = NoOptions
  /\ aggregated = EmptyAggregate
  /\ weighted = EmptyWeighted
  /\ BandIdle
  /\ ComponentsIdle
  /\ FilterIdle

\* a call DataAggregator.aggregateByPremiumBandAndMonth(rawData, options)
AggregateByPremiumBandAndMonth ==
  /\ op = "none"
  /\ \E sampleSize \in {0, MaxRecords - 1}, includeCountMetrics \in BOOLEAN,
        filterDateRange \in {<<>>, ReportRange} :
       /\ options' = [call |-> "aggregate", sampleSize |-> sampleSize,
                      includeCountMetrics |-> includeCountMetrics,
                      filterDateRange |-> filterDateRange]
       /\ aggregated' = aggregateByPremiumBandAndMonth(rawData, sampleSize,
                                                       includeCountMetrics, filterDateRange)
       /\ rawData' = RecordsAfterAggregate(rawData, sampleSize)
  /\ op' = "aggregate"
  /\ UNCHANGED <<bandVars, weighted, filterVars, componentVars>>

AggNext == AggregateByPremiumBandAndMonth

SpecAgg == AggInit /\ [][AggNext]_vars

-----------------------------------------------------------------------------
(* Inputs of the weighted averages: records that differ in band, loan      *)
(* amount and LTV                                                          *)

WeightedRecords ==
  {Rec(LenderA, l, v, DateAt(1), Purchase, b, <<>>, Num(5), Num(2)) :
     l \in AggLoans, v \in {NaN, Num(70), Num(90)}, b \in {Band_0_20, Band_160_180}}

MetricLists == {<<Ltv>>, <<Rate>>, <<Ltv, Rate, TermMetric>>, <<InitialRateField>>}

WeightedInit ==
  /\ rawData \in SeqsUpTo(WeightedRecords, MaxRecords)
  /\ op = "none"
  /\ options = NoOptions
  /\ aggregated = EmptyAggregate
  /\ weighted = EmptyWeighted
  /\ BandIdle
  /\ ComponentsIdle
  /\ FilterIdle

\* a call DataAggregator.calculateWeightedAverages(rawData, options)
CalculateWeightedAverages ==
  /\ op = "none"
  /\ \E metrics \in MetricLists, includeMonthly \in BOOLEAN :
       /\ options' = [call |-> "weighted", metrics |-> metrics,
                      includeMonthly |-> includeMonthly]
       /\ weighted' = calculateWeightedAverages(rawData, metrics, includeMonthly)
  /\ op' = "weighted"
  /\ UNCHANGED <<bandVars, rawData, aggregated, filterVars, componentVars>>

WeightedNext == CalculateWeightedAverages

SpecWeighted == WeightedInit /\ [][WeightedNext]_vars

-----------------------------------------------------------------------------
(* Inputs of the Filter Engine: processed records that differ from a base  *)
(* record in one dimension, and filter specifications over all dimensions  *)

InJanuary == DateAt((DaysPerMonth * TicksPerDay) + 1)

BaseRecord == Rec(LenderA, Num(100), Num(80), InJanuary, Purchase, Band_0_20, <<>>, Num(5), Num(2))

FilterRecords ==
  {BaseRecord, [BaseRecord EXCEPT !.BaseLender = LenderB],
   [BaseRecord EXCEPT !.PurchaseType = Remortgage]}
  \cup {[BaseRecord EXCEPT !.LTV = v] : v \in {NaN, Num(79), Num(85), Num(90)}}
  \cup {[BaseRecord EXCEPT !.DocumentDate = d] : d \in {InvalidDate, DateAt(1)}}
  \cup {[BaseRecord EXCEPT !.PremiumBand = b] : b \in {Unknown, Band_Excluded}}

January == <<DateAt(DaysPerMonth * TicksPerDay), DateAt((2 * DaysPerMonth * TicksPerDay) - 1)>>

LtvRanges == {"all", "below-80", "above-80", "above-85", "above-90"}

FilterSpecs ==
  {[dateRange |-> dr, lenders |-> ls, ltvRange |-> lr] :
     dr \in {<<NoDate, NoDate>>, January},
     ls \in {<<>>, <<"all_lenders">>, <<LenderA>>},
     lr \in LtvRanges}
  \cup
  {[dateRange |-> dr, lenders |-> ls, ltvRange |-> lr, purchaseTypes |-> <<Purchase>>] :
     dr \in {<<NoDate, NoDate>>, January},
     ls \in {<<>>, <<"all_lenders">>, <<LenderA>>},
     lr \in LtvRanges}

\* the collection was processed (processData) and the active set is the
\* constructor's or the one of the last applyFilters with this specification
FilterInit ==
  /\ rawData \in SeqsUpTo(FilterRecords, MaxRecords)
  /\ stateFilters \in FilterSpecs
  /\ activeFilters \in {{}, updateActiveFilters(stateFilters)}
  /\ filtered = <<>>
  /\ refiltered = <<>>
  /\ op = "none"
  /\ options = NoOptions
  /\ aggregated = Null
  /\ weighted = EmptyWeighted
  /\ BandIdle
  /\ ComponentsIdle

\* FilterManager.applyFilters(state.filters), lines 512-558
FilterManagerApplyFilters ==
  /\ op = "none"
  /\ activeFilters' = updateActiveFilters(stateFilters)
  /\ filtered' = IF activeFilters' = {} THEN rawData
                 ELSE FilterManager_filterData(rawData, stateFilters, activeFilters')
  /\ aggregated' = aggregateData(filtered', stateFilters)
  /\ op' = "apply"
  /\ UNCHANGED <<bandVars, rawData, options, weighted, stateFilters, refiltered, componentVars>>

\* DataManager.applyFilters(state.filters), lines 294-325
DataManagerApplyFilters ==
  /\ op = "none"
  /\ Len(rawData) > 0
  /\ filtered' = DataManager_filterData(rawData, stateFilters)
  /\ aggregated' = aggregateData(filtered', stateFilters)
  /\ op' = "dmApply"
  /\ UNCHANGED <<bandVars, rawData, options, weighted, stateFilters, activeFilters, refiltered, componentVars>>

\* a call FilterManager.filterData(rawData, state.filters)
FilterData ==
  /\ op = "none"
  /\ filtered' = FilterManager_filterData(rawData, stateFilters, activeFilters)
  /\ op' = "filter"
  /\ UNCHANGED <<bandVars, rawData, options, aggregated, weighted, stateFilters,
                 activeFilters, refiltered, componentVars>>

\* a call FilterManager.filterData on the collection the last call returned
FilterDataAgain ==
  /\ op = "filter"
  /\ refiltered' = FilterManager_filterData(filtered, stateFilters, activeFilters)
  /\ op' = "refilter"
  /\ UNCHANGED <<bandVars, rawData, options, aggregated, weighted, stateFilters,
                 activeFilters, filtered, componentVars>>

FilterNext ==
  \/ FilterManagerApplyFilters
  \/ DataManagerApplyFilters
  \/ FilterData
  \/ FilterDataAgain

SpecFilter == FilterInit /\ [][FilterNext]_vars

\* Day boundaries: records dated at either tick of the first three days,
\* and every date range whose bounds are a tick of the second or third day
DayTicks == 0..((3 * TicksPerDay) - 1)

DayRecords == {[BaseRecord EXCEPT !.DocumentDate = DateAt(t)] : t \in DayTicks}

DayRanges ==
  {dr \in {<<DateAt(s), DateAt(e)>> : s \in DayTicks, e \in DayTicks} :
     dr[1].t >= TicksPerDay /\ dr[1].t <= dr[2].t}

DayInit ==
  /\ rawData \in SeqsUpTo(DayRecords, MaxRecords)
  /\ stateFilters \in {[InitialFilters EXCEPT !.dateRange = dr] : dr \in DayRanges}
  /\ activeFilters \in {{}, updateActiveFilters(stateFilters)}
  /\ filtered = <<>>
  /\ refiltered = <<>>
  /\ op = "none"
  /\ options = NoOptions
  /\ aggregated = Null
  /\ weighted = EmptyWeighted
  /\ BandIdle
  /\ ComponentsIdle

SpecDays == DayInit /\ [][FilterNext]_vars

-----------------------------------------------------------------------------
(* Inputs of the cross-tab: records of two lenders, two bands, the two LTV *)
(* segments and two amounts, and records with one field missing or odd     *)

CrossTabBase == Rec(LenderA, Num(100), Num(79), DateAt(1), Purchase, Band_0_20, <<>>, Num(5), Num(2))

CrossTabRecords ==
  {Rec(l, a, v, DateAt(1), Purchase, b, <<>>, Num(5), Num(2)) :
     l \in {LenderA, LenderB}, a \in {Num(100), Num(300)}, v \in {Num(79), Num(80)},
     b \in {Band_0_20, Band_160_180}}
  \cup {[CrossTabBase EXCEPT !.BaseLender = ""], [CrossTabBase EXCEPT !.PremiumBand = <<>>],
        [CrossTabBase EXCEPT !.PremiumBand = Unknown], [CrossTabBase EXCEPT !.LTV = NaN],
        [CrossTabBase EXCEPT !.Loan = NaN], [CrossTabBase EXCEPT !.Loan = Num(-100)]}

BandSelections ==
  {<<>>, <<Unknown>>, <<Band_0_20>>, <<Band_0_20, Band_160_180>>, <<Unknown, Band_0_20>>}

CrossTabInit ==
  /\ rawData \in SeqsUpTo(CrossTabRecords, MaxRecords)
  /\ op = "none"
  /\ options = NoOptions
  /\ aggregated = EmptyAggregate
  /\ weighted = EmptyWeighted
  /\ BandIdle
  /\ FilterIdle
  /\ ComponentsIdle

\* a call calculateMarketShare(rawData, selectedPremiumBands)
CalculateMarketShare ==
  /\ op = "none"
  /\ \E selected \in BandSelections :
       /\ options' = [call |-> "crossTab", selectedPremiumBands |-> selected]
       /\ marketShare' = calculateMarketShare(rawData, selected)
  /\ op' = "crossTab"
  /\ UNCHANGED <<bandVars, rawData, aggregated, weighted, filterVars, tableData, loaderVars,
                 panelVars, managerVars, optionVars>>

\* a call render(marketShare) with a container and no render under way
Render ==
  /\ op = "crossTab"
  /\ tableData' = render(marketShare)
  /\ op' = "render"
  /\ UNCHANGED <<bandVars, rawData, options, aggregated, weighted, filterVars, marketShare,
                 loaderVars, panelVars, managerVars, optionVars>>

CrossTabNext == CalculateMarketShare \/ Render

SpecCrossTab == CrossTabInit /\ [][CrossTabNext]_vars

-----------------------------------------------------------------------------
(* Inputs of the ingestion: two datasets of at most MaxRecords + 1 records *)
(* in all, with and without lender, date and margin bucket                 *)

LoaderRecords ==
  {Rec(l, Num(100), Num(75), d, Purchase, <<>>, <<>>, Num(5), Num(2)) :
     l \in {LenderA, ""},
     d \in {NoDate, InvalidDate, DateAt(1), DateAt((DaysPerMonth * TicksPerDay) + 1)}}
  \cup {Rec(LenderA, Num(100), Num(75), DateAt(1), Purchase, <<>>, Bucket_16_18, Num(5), Num(2))}

LoaderInit ==
  /\ \E all \in SeqsUpTo(LoaderRecords, MaxRecords + 1) : \E cut \in 0..Len(all) :
       datasets = <<SubSeq(all, 1, cut), SubSeq(all, cut + 1, Len(all))>>
  /\ combined = <<>>
  /\ TableIdle
  /\ PanelIdle
  /\ ManagerIdle
  /\ OptionsIdle
  /\ EngineIdle
  /\ FilterIdle
  /\ BandIdle

\* a call DataLoader.combineAndProcess(datasets, options)
CombineAndProcess ==
  /\ op = "none"
  /\ \E deduplicate \in BOOLEAN, validateData \in BOOLEAN :
       /\ options' = [call |-> "combine", deduplicateRecords |-> deduplicate,
                      validateData |-> validateData]
       /\ combined' \in combineAndProcess(datasets, deduplicate, validateData)
       /\ datasets' = DatasetsAfter(datasets, validateData)
  /\ op' = "combine"
  /\ UNCHANGED <<bandVars, rawData, aggregated, weighted, filterVars, tableVars,
                 panelVars, managerVars, optionVars>>

LoaderNext == CombineAndProcess

SpecLoader == LoaderInit /\ [][LoaderNext]_vars

-----------------------------------------------------------------------------
(* Inputs of the aggregation with faults: a collection that is no array, a *)
(* null element in the collection, a record whose date makes the loop throw*)

FaultRecords ==
  {Rec(LenderA, l, Num(75), d, Purchase, b[1], b[2], Num(5), Num(2)) :
     l \in {Num(100), Num(300)}, d \in {SlashedDate, DateAt(1)}, b \in AggBands}

FaultInit ==
  /\ rawData \in SeqsUpTo(FaultRecords, MaxRecords)
  /\ op = "none"
  /\ options = NoOptions
  /\ aggregated = EmptyAggregate
  /\ weighted = EmptyWeighted
  /\ BandIdle
  /\ FilterIdle
  /\ ComponentsIdle

\* a call aggregateByPremiumBandAndMonth(data) with data null or no array
AggregateMalformed ==
  /\ op = "none"
  /\ \E given \in {"null", "object"} :
       options' = [call |-> "aggregate", data |-> given]
  /\ aggregated' = EmptyAggregate
  /\ op' = "aggregateMalformed"
  /\ UNCHANGED <<bandVars, rawData, weighted, filterVars, componentVars>>

\* a call DataManager.aggregateData(null): the raw data of the state is taken
AggregateDataMissing ==
  /\ op = "none"
  /\ options' = [call |-> "aggregateData", data |-> "null"]
  /\ aggregated' = aggregateData(rawData, stateFilters)
  /\ rawData' = RecordsAfterAggregate(rawData, 0)
  /\ op' = "aggregateData"
  /\ UNCHANGED <<bandVars, weighted, filterVars, componentVars>>

\* a call aggregateByPremiumBandAndMonth for rawData with a null element
AggregateWithNullRecord ==
  /\ op = "none"
  /\ \E nullAt \in 1..(Len(rawData) + 1), sampleSize \in {0, MaxRecords},
        includeCountMetrics \in BOOLEAN :
       /\ options' = [call |-> "aggregate", nullAt |-> nullAt, sampleSize |-> sampleSize,
                      includeCountMetrics |-> includeCountMetrics,
                      filterDateRange |-> <<>>]
       /\ aggregated' = aggregateWithNullRecord(rawData, nullAt, sampleSize,
                                                includeCountMetrics, <<>>)
       /\ rawData' = RecordsAfterNullRecord(rawData, nullAt, sampleSize)
  /\ op' = "aggregateFault"
  /\ UNCHANGED <<bandVars, weighted, filterVars, componentVars>>

FaultNext == AggregateMalformed \/ AggregateDataMissing \/ AggregateWithNullRecord

SpecFault == FaultInit /\ [][FaultNext]_vars

-----------------------------------------------------------------------------
(* The Filter Panel after a load: the application is constructed, a        *)
(* collection of at most MaxRecords records with and without document date *)
(* is ingested, and the panel then takes change events and resets          *)

PanelDates ==
  {NoDate, InvalidDate}
    \cup {DateAt(d * TicksPerDay) : d \in {0, 1, DaysPerMonth, 2 * DaysPerMonth}}

PanelRecords ==
  {Rec(LenderA, Num(100), Num(75), d, Purchase, Band_0_20, <<>>, Num(5), Num(2)) :
     d \in PanelDates}

PanelInit ==
  /\ EngineIdle
  /\ BandIdle
  /\ FilterIdle
  /\ ComponentsIdle

\* DataManager.processData lines 183-189 and the first FilterPanel.render:
\* the date range of the data is stored, which the subscriber
\* FilterManager.onFiltersChanged marks as pending
ProcessData ==
  /\ op = "none"
  /\ \E data \in SeqsUpTo(PanelRecords, MaxRecords) :
       /\ rawData' = data
       /\ stateFilters' = setDateRangeFromData(stateFilters, data)
       /\ pendingApply' = (ValidTimestamps(data) # {})
  /\ lenderCheckboxes' = RenderedBoxes(stateFilters', "lenders", LenderBoxes, AllLenders)
  /\ purchaseTypeCheckboxes' =
       RenderedBoxes(stateFilters', "purchaseTypes", PurchaseTypeBoxes, AllPurchaseTypes)
  /\ op' = "load"
  /\ options' = [call |-> "processData"]
  /\ UNCHANGED <<bandVars, aggregated, weighted, activeFilters, filtered, refiltered,
                 tableVars, loaderVars, managerVars, optionVars>>

\* a change event of a lender checkbox: the handler, updateFilter and, when
\* the selection was stored, the subscribers of 'filters'
LenderCheckboxChange ==
  /\ op # "none"
  /\ \E value \in Range(LenderBoxes) :
       LET handled == handleLenderCheckboxChange(lenderCheckboxes, value)
           updated == updateFilter(stateFilters, "lenders", handled.selection)
       IN  /\ stateFilters' = updated.filters
           /\ lenderCheckboxes' =
                IF updated.ok
                THEN updateFilterSelections(updated.filters, "lenders", LenderBoxes, AllLenders)
                ELSE handled.checked
           /\ purchaseTypeCheckboxes' =
                IF updated.ok
                THEN updateFilterSelections(updated.filters, "purchaseTypes",
                                            PurchaseTypeBoxes, AllPurchaseTypes)
                ELSE purchaseTypeCheckboxes
           /\ pendingApply' = (pendingApply \/ updated.ok)
           /\ options' = [call |-> "change", value |-> value,
                          checked |-> value \notin lenderCheckboxes,
                          before |-> lenderCheckboxes]
  /\ op' = "lenderChange"
  /\ UNCHANGED <<bandVars, rawData, aggregated, weighted, activeFilters, filtered,
                 refiltered, tableVars, loaderVars, managerVars, optionVars>>

\* a change event of a purchase type checkbox
PurchaseTypeCheckboxChange ==
  /\ op # "none"
  /\ \E value \in Range(PurchaseTypeBoxes) :
       LET handled == handlePurchaseTypeCheckboxChange(purchaseTypeCheckboxes, value)
           updated == updateFilter(stateFilters, "purchaseTypes", handled.selection)
       IN  /\ stateFilters' = updated.filters
           /\ lenderCheckboxes' =
                IF updated.ok
                THEN updateFilterSelections(updated.filters, "lenders", LenderBoxes, AllLenders)
                ELSE lenderCheckboxes
           /\ purchaseTypeCheckboxes' =
                IF updated.ok
                THEN updateFilterSelections(updated.filters, "purchaseTypes",
                                            PurchaseTypeBoxes, AllPurchaseTypes)
                ELSE handled.checked
           /\ pendingApply' = (pendingApply \/ updated.ok)
           /\ options' = [call |-> "change", value |-> value,
                          checked |-> value \notin purchaseTypeCheckboxes,
                          before |-> purchaseTypeCheckboxes]
  /\ op' = "purchaseTypeChange"
  /\ UNCHANGED <<bandVars, rawData, aggregated, weighted, activeFilters, filtered,
                 refiltered, tableVars, loaderVars, managerVars, optionVars>>

\* createLTVRangeFilter lines 366-368: a change event of the LTV select
LtvRangeChange ==
  /\ op # "none"
  /\ \E value \in {"all", "below-80", "above-80", "above-85", "above-90"} :
       /\ stateFilters' = updateFilter(stateFilters, "ltvRange", value).filters
       /\ options' = [call |-> "change", value |-> value]
  /\ lenderCheckboxes' = updateFilterSelections(stateFilters', "lenders", LenderBoxes, AllLenders)
  /\ purchaseTypeCheckboxes' =
       updateFilterSelections(stateFilters', "purchaseTypes", PurchaseTypeBoxes, AllPurchaseTypes)
  /\ pendingApply' = TRUE
  /\ op' = "ltvRangeChange"
  /\ UNCHANGED <<bandVars, rawData, aggregated, weighted, activeFilters, filtered,
                 refiltered, tableVars, loaderVars, managerVars, optionVars>>

\* FilterPanel.resetFilters lines 546-549: FilterManager.resetFilters and a
\* render
ResetFilters ==
  /\ op # "none"
  /\ stateFilters' = resetFilters
  /\ pendingApply' = TRUE
  /\ lenderCheckboxes' = RenderedBoxes(stateFilters', "lenders", LenderBoxes, AllLenders)
  /\ purchaseTypeCheckboxes' =
       RenderedBoxes(stateFilters', "purchaseTypes", PurchaseTypeBoxes, AllPurchaseTypes)
  /\ op' = "reset"
  /\ options' = [call |-> "resetFilters", before |-> stateFilters]
  /\ UNCHANGED <<bandVars, rawData, aggregated, weighted, activeFilters, filtered,
                 refiltered, tableVars, loaderVars, managerVars, optionVars>>

PanelNext ==
  \/ ProcessData
  \/ LenderCheckboxChange
  \/ PurchaseTypeCheckboxChange
  \/ LtvRangeChange
  \/ ResetFilters

SpecPanel == PanelInit /\ [][PanelNext]_vars

\* Calls of FilterManager.updateFilter by any caller, before and after the
\* collection was processed: one value for each of the four dimensions and
\* one for a name that is none
FilterDimensions == {"dateRange", "lenders", "ltvRange", "purchaseTypes"}

FieldValues ==
  [dateRange     |-> <<DateAt(0), DateAt(TicksPerDay)>>,
   lenders       |-> <<LenderB>>,
   ltvRange      |-> "above-85",
   purchaseTypes |-> <<Remortgage>>,
   sortOrder     |-> "ascending"]

\* FilterManager.updateFilter(filterName, value) lines 691-706, with the
\* subscribers of 'filters': FilterManager.onFiltersChanged and, once the
\* panel is rendered, FilterPanel.updateFilterSelections
UpdateFilter ==
  /\ \E filterName \in DOMAIN FieldValues :
       LET updated == updateFilter(stateFilters, filterName, FieldValues[filterName])
           shown   == op # "none" /\ updated.ok
       IN  /\ stateFilters' = updated.filters
           /\ lenderCheckboxes' =
                IF shown
                THEN updateFilterSelections(updated.filters, "lenders", LenderBoxes, AllLenders)
                ELSE lenderCheckboxes
           /\ purchaseTypeCheckboxes' =
                IF shown
                THEN updateFilterSelections(updated.filters, "purchaseTypes",
                                            PurchaseTypeBoxes, AllPurchaseTypes)
                ELSE purchaseTypeCheckboxes
           /\ pendingApply' = (pendingApply \/ updated.ok)
           /\ options' = [call |-> "updateFilter", filterName |-> filterName,
                          ok |-> updated.ok, before |-> stateFilters]
  /\ UNCHANGED <<bandVars, rawData, op, aggregated, weighted, activeFilters, filtered,
                 refiltered, tableVars, loaderVars, managerVars, optionVars>>

FieldsNext == PanelNext \/ UpdateFilter

SpecFields == PanelInit /\ [][FieldsNext]_vars

-----------------------------------------------------------------------------
(* Aggregation over an explicit date range: collections of at most one     *)
(* record, and every start and end among the ticks of the first            *)
(* MaxRecords + 1 months of the calendar, December 2024 being the first    *)

RangeTicks == 0..(((MaxRecords + 1) * DaysPerMonth * TicksPerDay) - 1)

RangeDates == {InvalidDate} \cup {DateAt(t) : t \in RangeTicks}

RangeInit ==
  /\ rawData \in SeqsUpTo(AggRecords, 1)
  /\ op = "none"
  /\ options = NoOptions
  /\ aggregated = EmptyAggregate
  /\ weighted = EmptyWeighted
  /\ BandIdle
  /\ ComponentsIdle
  /\ FilterIdle

\* a call aggregateByPremiumBandAndMonth(rawData, {filterDateRange: [start, end]})
AggregateOverRange ==
  /\ op = "none"
  /\ \E start \in RangeDates, end \in RangeDates :
       /\ options' = [call |-> "aggregate", sampleSize |-> 0,
                      includeCountMetrics |-> TRUE,
                      filterDateRange |-> <<start, end>>]
       /\ aggregated' = aggregateByPremiumBandAndMonth(rawData, 0, TRUE, <<start, end>>)
  /\ rawData' = RecordsAfterAggregate(rawData, 0)
  /\ op' = "aggregateRange"
  /\ UNCHANGED <<bandVars, weighted, filterVars, componentVars>>

RangeNext == AggregateOverRange

SpecRange == RangeInit /\ [][RangeNext]_vars

-----------------------------------------------------------------------------
(* The State Manager under at most MaxSubscribers callbacks, subscribed to *)
(* a path, to its parents, to a sibling or to the root, and setState for   *)
(* paths of one, two and three keys                                        *)

SubscriptionKeys ==
  {<<"data", "raw">>, <<"data">>, <<"data", "custom">>, <<"data", "filtered">>, RootKey}

StatePaths == {<<"filters">>, <<"data", "raw">>, <<"data", "custom", "category">>}

StateValues == {[id |-> 1]}

ManagerInit ==
  /\ EngineIdle
  /\ BandIdle
  /\ FilterIdle
  /\ ComponentsIdle

\* stateManager.subscribe(key, callback) with a new callback
Subscribe ==
  /\ Cardinality(Registered(subscribers)) < MaxSubscribers
  /\ \E key \in SubscriptionKeys :
       LET callback == CHOOSE n \in 1..MaxSubscribers : n \notin Registered(subscribers)
       IN  subscribers' = subscribe(subscribers, key, callback)
  /\ calls' = <<>>
  /\ op' = "subscribe"
  /\ options' = [call |-> "subscribe"]
  /\ UNCHANGED <<bandVars, rawData, aggregated, weighted, filterVars, tableVars,
                 loaderVars, panelVars, optionVars, state>>

\* a call of the function a subscribe returned
Unsubscribe ==
  /\ \E key \in DOMAIN subscribers :
       \E callback \in Range(subscribers[key]) :
         subscribers' = unsubscribe(subscribers, key, callback)
  /\ calls' = <<>>
  /\ op' = "unsubscribe"
  /\ options' = [call |-> "unsubscribe"]
  /\ UNCHANGED <<bandVars, rawData, aggregated, weighted, filterVars, tableVars,
                 loaderVars, panelVars, optionVars, state>>

\* stateManager.setState(path, value): the callbacks only take their
\* argument
SetState ==
  /\ \E path \in StatePaths, value \in StateValues :
       /\ state' = updateNestedState(state, path, value)
       /\ options' = [call |-> "setState", path |-> path, value |-> value]
       /\ calls' = notifySubscribers(subscribers, state', path)
  /\ op' = "setState"
  /\ UNCHANGED <<bandVars, rawData, aggregated, weighted, filterVars, tableVars,
                 loaderVars, panelVars, optionVars, subscribers>>

ManagerNext == Subscribe \/ Unsubscribe \/ SetState

SpecManager == ManagerInit /\ [][ManagerNext]_vars

\* stateManager.resetState() and stateManager.resetState(path)
ResetPaths == {<<>>, <<"filters">>, <<"ui">>, <<"data">>}

ResetState ==
  /\ \E path \in ResetPaths :
       /\ state' = resetState(subscribers, state, path).state
       /\ calls' = resetState(subscribers, state, path).calls
       /\ options' = [call |-> "resetState", path |-> path]
  /\ op' = "resetState"
  /\ UNCHANGED <<bandVars, rawData, aggregated, weighted, filterVars, tableVars,
                 loaderVars, panelVars, optionVars, subscribers>>

ResetNext == ManagerNext \/ ResetState

SpecReset == ManagerInit /\ [][ResetNext]_vars

-----------------------------------------------------------------------------
(* Calls of getFilterOptions, from the application and from within a call  *)
(* that has not returned yet                                               *)

OptionsInit ==
  /\ rawData \in SeqsUpTo(FilterRecords, MaxRecords)
  /\ op = "none"
  /\ options = NoOptions
  /\ aggregated = EmptyAggregate
  /\ weighted = EmptyWeighted
  /\ BandIdle
  /\ FilterIdle
  /\ ComponentsIdle

\* getFilterOptions lines 729-734: a call, made while no call is under way
\* or from the try block of the innermost one; with the flag set it returns
\* the default options at once, and nothing sets the flag here
GetFilterOptions ==
  /\ Len(returned) + Len(invocations) < MaxReturns
  /\ Len(invocations) < MaxDepth
  /\ Len(invocations) > 0 => invocations[Len(invocations)].pc = "try"
  /\ IF gettingFilterOptions
     THEN /\ returned' = Append(returned, [depth |-> Len(invocations),
                                           value |-> getDefaultFilterOptions])
          /\ UNCHANGED invocations
     ELSE /\ invocations' = Append(invocations, [pc |-> "try", value |-> Null])
          /\ UNCHANGED returned
  /\ UNCHANGED <<bandVars, engineVars, filterVars, tableVars, loaderVars, panelVars,
                 managerVars, gettingFilterOptions>>

\* lines 735-820: the innermost call computes its value
GetFilterOptionsTry ==
  /\ Len(invocations) > 0
  /\ invocations[Len(invocations)].pc = "try"
  /\ invocations' = [invocations EXCEPT ![Len(invocations)] =
                       [pc |-> "finally", value |-> FilterOptionsOf(rawData)]]
  /\ UNCHANGED <<bandVars, engineVars, filterVars, tableVars, loaderVars, panelVars,
                 managerVars, gettingFilterOptions, returned>>

\* lines 825-827: the finally block, and the return of the innermost call
GetFilterOptionsFinally ==
  /\ Len(invocations) > 0
  /\ invocations[Len(invocations)].pc = "finally"
  /\ gettingFilterOptions' = FALSE
  /\ returned' = Append(returned, [depth |-> Len(invocations) - 1,
                                   value |-> invocations[Len(invocations)].value])
  /\ invocations' = SubSeq(invocations, 1, Len(invocations) - 1)
  /\ UNCHANGED <<bandVars, engineVars, filterVars, tableVars, loaderVars, panelVars,
                 managerVars>>

OptionsNext == GetFilterOptions \/ GetFilterOptionsTry \/ GetFilterOptionsFinally

SpecOptions == OptionsInit /\ [][OptionsNext]_vars

-----------------------------------------------------------------------------
(* Aggregation of bands with a negative lower bound: collections of at     *)
(* most MaxRecords records of the bands '-20-0', '0-20' and '20-40', in    *)
(* every order                                                             *)

Band_Neg20_0 == <<"-", "2", "0", "-", "0">>

Band_20_40 == <<"2", "0", "-", "4", "0">>

OrderRecords ==
  {Rec(LenderA, l, Num(75), DateAt(1), Purchase, b, <<>>, Num(5), Num(2)) :
     l \in {Num(100), Num(300)}, b \in {Band_Neg20_0, Band_0_20, Band_20_40}}

OrderInit ==
  /\ rawData \in SeqsUpTo(OrderRecords, MaxRecords)
  /\ op = "none"
  /\ options = NoOptions
  /\ aggregated = EmptyAggregate
  /\ weighted = EmptyWeighted
  /\ BandIdle
  /\ ComponentsIdle
  /\ FilterIdle

SpecOrder == OrderInit /\ [][AggNext]_vars

-----------------------------------------------------------------------------
(* Sampling: collections of up to MaxSampled records, the record at        *)
(* position i lending 3^(i-1), so that the overall total tells which       *)
(* records were aggregated and whether one was aggregated twice            *)

RECURSIVE AmountAt(_)
AmountAt(i) == IF i = 1 THEN 1 ELSE 3 * AmountAt(i - 1)

SampleCollections ==
  UNION {{[i \in 1..n |->
             Rec(LenderA, Num(AmountAt(i)), Num(75), DateAt(1), Purchase, bands[i], <<>>,
                 Num(5), Num(2))] :
            bands \in [1..n -> {Band_0_20, Band_160_180}]} : n \in 0..MaxSampled}

SampleInit ==
  /\ rawData \in SampleCollections
  /\ op = "none"
  /\ options = NoOptions
  /\ aggregated = EmptyAggregate
  /\ weighted = EmptyWeighted
  /\ BandIdle
  /\ ComponentsIdle
  /\ FilterIdle

\* a call DataAggregator.aggregateByPremiumBandAndMonth(rawData, options)
\* with any sample size up to one more than the records, or without one
\* (line 41, and DataManager.aggregateData line 268: sampleSize is then 0)
AggregateSample ==
  /\ op = "none"
  /\ \E given \in {Undefined} \cup {[sampleSize |-> n] : n \in 0..(MaxSampled + 1)} :
       LET sampleSize == IF given = Undefined THEN 0 ELSE given.sampleSize
       IN  /\ options' = [call |-> "aggregate", sampleSize |-> sampleSize, given |-> given,
                          includeCountMetrics |-> FALSE, filterDateRange |-> <<>>]
           /\ aggregated' = aggregateByPremiumBandAndMonth(rawData, sampleSize, FALSE, <<>>)
           /\ rawData' = RecordsAfterAggregate(rawData, sampleSize)
  /\ op' = "aggregate"
  /\ UNCHANGED <<bandVars, weighted, filterVars, componentVars>>

SampleNext == AggregateSample

SpecSample == SampleInit /\ [][SampleNext]_vars

-----------------------------------------------------------------------------
(* Properties of the Field Normalizer                                      *)

\* a signed decimal: -?digits(.digits)? and nothing else
IsSignedDecimal(s) ==
  LET b == IF Len(s) > 0 /\ s[1] = "-" THEN 2 ELSE 1
      c == DigitsEnd(s, b)
  IN  /\ c > b
      /\ \/ c = Len(s) + 1
         \/ /\ s[c] = "."
            /\ DigitsEnd(s, c + 1) > c + 1
            /\ DigitsEnd(s, c + 1) = Len(s) + 1

\* the positions of the hyphen that separates two signed decimals
SeparatorsOf(s) ==
  {i \in 1..Len(s) : /\ s[i] = "-"
                     /\ IsSignedDecimal(SubSeq(s, 1, i - 1))
                     /\ IsSignedDecimal(SubSeq(s, i + 1, Len(s)))}

IsValidBucket(s) == SeparatorsOf(s) # {}

HasNegativeBound(s) ==
  \E i \in SeparatorsOf(s) : s[1] = "-" \/ s[i + 1] = "-"

\* "round(100*a)-round(100*b)" for the valid bucket s = "a-b"
ExpectedBps(s) ==
  LET i == CHOOSE j \in SeparatorsOf(s) : TRUE
      a == ParseFloat(SubSeq(s, 1, i - 1))
      b == ParseFloat(SubSeq(s, i + 1, Len(s)))
  IN  NumToStr(RoundTimes100(a)) \o <<"-">> \o NumToStr(RoundTimes100(b))

\* some hyphen has a number to its left and a number to its right
HasTwoNumericParts(s) ==
  \E i \in 1..Len(s) : /\ s[i] = "-"
                        /\ ~ParseFloat(SubSeq(s, 1, i - 1)).nan
                        /\ ~ParseFloat(SubSeq(s, i + 1, Len(s))).nan

\* C7: convertMarginBucketToBps returns "round(100a)-round(100b)" for every
\* valid bucket "a-b" and returns every string without two numeric parts
\* unchanged.
C7_ConvertValidOrUnchanged ==
  bandOp = "convert" =>
    /\ IsValidBucket(bandIn) => bandOut = ExpectedBps(bandIn)
    /\ ~HasTwoNumericParts(bandIn) => bandOut = bandIn

\* C8: a bucket whose bounds carry a leading minus sign is parsed into its
\* two signed bounds and converted to the basis-point range.
C8_NegativeBoundsConverted ==
  (bandOp = "convert" /\ IsValidBucket(bandIn) /\ HasNegativeBound(bandIn))
    => bandOut = ExpectedBps(bandIn)

\* C9: standardizePremiumBand is idempotent: standardizing the label a
\* first call returned gives that label back.
C9_StandardizeIdempotent ==
  bandOp = "standardize2" => bandOut = bandIn

\* C9 witness: a label the first call converted has been standardized again
C9_Witness ==
  bandOp = "standardize2" /\ bandIn # bandSrc /\ bandOut = bandIn

-----------------------------------------------------------------------------
(* Properties of the Aggregation Engine                                    *)

RECURSIVE SumOver(_, _)
SumOver(f, S) ==
  IF S = {} THEN 0
  ELSE LET x == CHOOSE y \in S : TRUE
       IN  f[x] + SumOver(f, S \ {x})

\* the records the last aggregation processed
ProcessedRecords == DataToProcess(rawData, options.sampleSize)

\* the positions of the processed records of band b dated in month m
CellMembers(b, m) ==
  {i \in 1..Len(ProcessedRecords) :
     /\ ProcessedRecords[i].PremiumBand = b
     /\ ProcessedRecords[i].DocumentDate.kind = "date"
     /\ MonthOf(ProcessedRecords[i].DocumentDate.t) = m}

LoanAmounts == [i \in 1..Len(ProcessedRecords) |-> OrZero(ProcessedRecords[i].Loan)]

\* C1: in every aggregate result the grand total equals the sum of the band
\* totals and the sum of the month totals, for amounts and for counts.
C1_TotalsAgree ==
  op = "aggregate" =>
    /\ aggregated.totals.overall
         = SumOver(aggregated.totals.byPremiumBand, DOMAIN aggregated.totals.byPremiumBand)
    /\ aggregated.totals.overall
         = SumOver(aggregated.totals.byMonth, DOMAIN aggregated.totals.byMonth)
    /\ aggregated.counts.overall
         = SumOver(aggregated.counts.byPremiumBand, DOMAIN aggregated.counts.byPremiumBand)
    /\ aggregated.counts.overall
         = SumOver(aggregated.counts.byMonth, DOMAIN aggregated.counts.byMonth)

\* C1 witness: two records were summed into two bands and two months
C1_Witness ==
  /\ op = "aggregate"
  /\ aggregated.counts.overall = 2
  /\ Len(aggregated.premiumBands) = 2
  /\ Len(aggregated.months) = 2
  /\ aggregated.totals.overall = 400

\* C3: every cell holds the sum and the number of the processed records of
\* its band and month, and their average (0 for an empty cell).
C3_CellsHoldTheirRecords ==
  op = "aggregate" =>
    \A b \in Range(aggregated.premiumBands) : \A m \in Range(aggregated.months) :
      LET cell == aggregated.data[b][m]
      IN  /\ cell.amount = SumOver(LoanAmounts, CellMembers(b, m))
          /\ cell.count = Cardinality(CellMembers(b, m))
          /\ cell.avgLoanSize.den > 0
          /\ IF cell.count > 0
             THEN cell.avgLoanSize.num * cell.count = cell.amount * cell.avgLoanSize.den
             ELSE cell.avgLoanSize.num = 0

\* C3 witness: amounts 100 and 300 in one cell give 400, 2 and 200, and the
\* band holds a second, empty cell
C3_Witness ==
  /\ op = "aggregate"
  /\ \E b \in Range(aggregated.premiumBands) : \E m \in Range(aggregated.months) :
       /\ {LoanAmounts[i] : i \in CellMembers(b, m)} = {100, 300}
       /\ aggregated.data[b][m] = [amount |-> 400, count |-> 2,
                                   avgLoanSize |-> [num |-> 200, den |-> 1]]
       /\ aggregated.totals.byPremiumBand[b] = 400
       /\ \E m2 \in Range(aggregated.months) : aggregated.data[b][m2] = EmptyCell

\* C6: the market share of every cell of a month with a positive total lies
\* in [0, 100].
C6_MarketShareInRange ==
  (op = "aggregate" /\ options.includeCountMetrics) =>
    \A b \in Range(aggregated.premiumBands) : \A m \in Range(aggregated.months) :
      aggregated.totals.byMonth[m] > 0 =>
        LET share == aggregated.metrics.marketShare[b][m]
        IN  /\ 0 <= share.num
            /\ share.num <= 100 * share.den

\* the value the metric names in a record: LTV, initial rate, term, or the
\* column of that name
NamedValue(record, metric) ==
  IF metric = Ltv THEN record.LTV
  ELSE IF metric = Rate THEN record.InitialRate
  ELSE IF metric = TermMetric THEN record.Term
  ELSE Field(record, metric)

\* the records of band b with a positive loan amount and a positive value
Weighing(metric, b) ==
  {i \in 1..Len(rawData) :
     /\ rawData[i].PremiumBand = b
     /\ ~rawData[i].Loan.nan /\ rawData[i].Loan.val > 0
     /\ ~NamedValue(rawData[i], metric).nan /\ NamedValue(rawData[i], metric).val > 0}

\* C10: for each requested metric and band, weightedAvg is the loan-weighted
\* mean of the metric over the band's records with a positive loan amount
\* and a positive parsable value, and 0 when there is none.
C10_WeightedAverage ==
  op = "weighted" =>
    \A metric \in Range(options.metrics) : \A b \in Range(weighted.premiumBands) :
      LET S      == Weighing(metric, b)
          weight == [i \in 1..Len(rawData) |-> rawData[i].Loan.val]
          worth  == [i \in 1..Len(rawData) |->
                       rawData[i].Loan.val * NamedValue(rawData[i], metric).val]
          avg    == weighted.metrics[metric][b].weightedAvg
      IN  IF S = {} THEN avg.num = 0
          ELSE avg.num * SumOver(weight, S) = SumOver(worth, S) * avg.den

-----------------------------------------------------------------------------
(* Properties of the Filter Engine                                         *)

\* C2: after filters are applied, no band of the aggregate is "Unknown" or
\* "-0.4--0.2", whatever the filter specification is, the one with no active
\* dimension included.
C2_ExcludedBandsNeverAggregated ==
  (op \in {"apply", "dmApply"} /\ aggregated # Null) =>
    \A i \in 1..Len(aggregated.premiumBands) :
      ~IsExcludedBand(aggregated.premiumBands[i])

\* C4: FilterManager.filterData applied to its own result, with the same
\* filter specification, returns exactly the records of the first result.
C4_FilteringIdempotent ==
  op = "refilter" => refiltered = filtered

\* a first pass that removed some records and kept some, filtered again
C4_Witness ==
  /\ op = "refilter"
  /\ Len(filtered) > 0
  /\ Len(filtered) < Len(rawData)
  /\ refiltered = filtered

\* the bucket semantics: unparsable LTV never, below-80 below 80, above-N
\* from N on
BucketKeeps(record, ltvRange) ==
  /\ ~record.LTV.nan
  /\ ltvRange = "below-80" => record.LTV.val < 80
  /\ ltvRange = "above-80" => record.LTV.val >= 80
  /\ ltvRange = "above-85" => record.LTV.val >= 85
  /\ ltvRange = "above-90" => record.LTV.val >= 90

OnlyLtvRestricts ==
  /\ stateFilters.dateRange = <<NoDate, NoDate>>
  /\ stateFilters.lenders = <<>>
  /\ ~Has(stateFilters, "purchaseTypes")
  /\ stateFilters.ltvRange # "all"

\* C5: with the LTV dimension the only active one, both filters keep exactly
\* the records whose LTV is a number inside the bucket (of the records with a
\* shown band, for the DataManager filter).
C5_LtvBucketSemantics ==
  /\ (op \in {"apply", "filter"} /\ OnlyLtvRestricts /\ "ltvRange" \in activeFilters) =>
       filtered = SelectSeq(rawData, LAMBDA r : BucketKeeps(r, stateFilters.ltvRange))
  /\ (op = "dmApply" /\ OnlyLtvRestricts) =>
       filtered = SelectSeq(SelectSeq(rawData, LAMBDA r : ~IsExcludedBand(r.PremiumBand)),
                            LAMBDA r : BucketKeeps(r, stateFilters.ltvRange))

-----------------------------------------------------------------------------
(* Properties of the cross-tab                                             *)

\* the records counted in the cell of band b and segment seg
CellRecords(b, seg) ==
  {i \in 1..Len(rawData) :
     /\ rawData[i].BaseLender # ""
     /\ rawData[i].PremiumBand = b
     /\ \/ seg = "total"
        \/ seg = "ltv_under_80" /\ ~rawData[i].LTV.nan /\ rawData[i].LTV.val < 80
        \/ seg = "ltv_over_80" /\ (rawData[i].LTV.nan \/ rawData[i].LTV.val >= 80)}

\* lender l alone contributes the amount of the cell, and there is an amount
SoleContributor(l, b, seg) ==
  /\ CellRecords(b, seg) # {}
  /\ \A i \in CellRecords(b, seg) : rawData[i].BaseLender = l
  /\ SumOver([i \in 1..Len(rawData) |-> OrZero(rawData[i].Loan)], CellRecords(b, seg)) > 0

-----------------------------------------------------------------------------
(* Properties of the ingestion                                             *)

\* C12: with validation on, no record that isValidRecord rejects is in the
\* collection combineAndProcess returns.
C12_InvalidRecordsDiscarded ==
  (op = "combine" /\ options.validateData) =>
    \A i \in 1..Len(combined) : isValidRecord(combined[i])

\* C13: the collection combineAndProcess returns is in ascending order of
\* document date: of two dated records the earlier position has the date
\* that is not the later one.
C13_SortedByDocumentDate ==
  op = "combine" =>
    \A i, j \in 1..Len(combined) :
      (/\ i < j
       /\ combined[i].DocumentDate.kind = "date"
       /\ combined[j].DocumentDate.kind = "date")
        => combined[i].DocumentDate.t <= combined[j].DocumentDate.t

-----------------------------------------------------------------------------
(* Properties of the aggregation with faults                               *)

\* C14: the aggregation called with null or with something that is no array
\* raises an error to the caller and does not return an empty aggregate.
C14_MalformedInputFailsFast ==
  op = "aggregateMalformed" => aggregated # EmptyAggregate

\* C15: when one element of the collection makes the aggregation throw, the
\* result is the aggregation of the collection without that element (all
\* records processed, no sampling).
C15_OffendingRecordSkipped ==
  (op = "aggregateFault" /\ options.sampleSize = 0) =>
    aggregated = aggregateByPremiumBandAndMonth(rawData, 0, options.includeCountMetrics,
                                                options.filterDateRange)

-----------------------------------------------------------------------------
(* Properties of the Filter Panel                                          *)

\* the stored selection of a checkbox group, <<>> when state.filters holds
\* none
Stored(key) == IF Has(stateFilters, key) THEN stateFilters[key] ELSE <<>>

\* the selection holds the sentinel beside an explicit member
Mixed(selection, sentinel) ==
  Contains(selection, sentinel) /\ \E i \in 1..Len(selection) : selection[i] # sentinel

\* what a change event of the group must leave in the stored selection
ChangeRespectsSentinel(selection, sentinel) ==
  /\ (options.checked /\ options.value # sentinel) => ~Contains(selection, sentinel)
  /\ (options.checked /\ options.value = sentinel) => selection = <<sentinel>>
  /\ (~options.checked /\ options.value # sentinel
        /\ options.before \ {sentinel} = {options.value}) => selection = <<sentinel>>

\* C16: after any sequence of lender and purchase type checkbox change
\* events the stored lenders (purchaseTypes) selection never holds the
\* sentinel together with an explicit member; checking an explicit member
\* removes the sentinel, checking the sentinel removes the explicit members,
\* and unchecking the last explicit member restores the sentinel
C16_SentinelExclusive ==
  /\ ~Mixed(Stored("lenders"), AllLenders)
  /\ ~Mixed(Stored("purchaseTypes"), AllPurchaseTypes)
  /\ op = "lenderChange" => ChangeRespectsSentinel(Stored("lenders"), AllLenders)
  /\ op = "purchaseTypeChange" =>
       ChangeRespectsSentinel(Stored("purchaseTypes"), AllPurchaseTypes)

\* C17: after resetFilters the filter specification is the default one,
\* whatever it was before: dateRange spans the earliest to the latest
\* document date of the ingested data, lenders is the all-lenders sentinel,
\* the LTV bucket is "all" and purchaseTypes is the all-purchase-types
\* sentinel
C17_ResetRestoresDefault ==
  (op = "reset" /\ ValidTimestamps(rawData) # {}) =>
    stateFilters = [dateRange     |-> <<DateAt(MinOf(ValidTimestamps(rawData))),
                                        DateAt(MaxOf(ValidTimestamps(rawData)))>>,
                    lenders       |-> <<AllLenders>>,
                    ltvRange      |-> "all",
                    purchaseTypes |-> <<AllPurchaseTypes>>]

-----------------------------------------------------------------------------
(* Properties of the aggregation over a date range                         *)

\* the number of the calendar month a tick lies in, December 2024 being 0
MonthNumber(t) == t \div (DaysPerMonth * TicksPerDay)

\* the label <<year, month>> of the calendar month number k
MonthLabel(k) == <<(((2024 * 12) + 11) + k) \div 12, ((((2024 * 12) + 11) + k) % 12) + 1>>

\* every calendar month from the month of start to the month of end
CalendarMonths(start, end) ==
  [i \in 1..((MonthNumber(end.t) - MonthNumber(start.t)) + 1) |->
     MonthLabel((MonthNumber(start.t) + i) - 1)]

ExplicitRange ==
  /\ op = "aggregateRange"
  /\ options.filterDateRange[1].kind = "date"
  /\ options.filterDateRange[2].kind = "date"

\* C18: with an explicit date range (start, end) the month list of the
\* result is exactly every calendar month from the month of start to the
\* month of end inclusive, ascending and without duplicates, and every band
\* has a cell for each of these months even when no record falls in it
C18_EveryMonthOfRange ==
  ExplicitRange =>
    /\ aggregated.months =
         CalendarMonths(options.filterDateRange[1], options.filterDateRange[2])
    /\ \A b \in Range(aggregated.premiumBands) :
         \A m \in Range(aggregated.months) : m \in DOMAIN aggregated.data[b]

-----------------------------------------------------------------------------
(* Frame of the engine operations                                          *)

\* C19: aggregation and filtering never mutate their inputs: after
\* aggregateByPremiumBandAndMonth, calculateWeightedAverages,
\* calculateMarketShare or filterData returns, every record of the input
\* collection has the fields and values it had before the call, and the
\* collection has the same records in the same order
C19_InputsNotMutated == [][rawData' = rawData]_vars

-----------------------------------------------------------------------------
(* Properties of the State Manager                                         *)

\* the paths above a path, the empty one left out
AncestorPaths(path) == {SubSeq(path, 1, n) : n \in 1..(Len(path) - 1)}

\* the callback registered under key was called, and for that key
Invoked(callback, key) ==
  \E i \in 1..Len(calls) : calls[i].callback = callback /\ calls[i].key = key

\* the callback registered under key was called with arg
InvokedWith(callback, key, arg) ==
  \E i \in 1..Len(calls) :
    calls[i].callback = callback /\ calls[i].key = key /\ calls[i].arg = arg

SubscribersOf(key) == IF key \in DOMAIN subscribers THEN Range(subscribers[key]) ELSE {}

\* C20: setState(path, value) stores the value at path and then invokes
\* the subscribers registered for exactly that path, with the new value,
\* the subscribers registered for every ancestor path of it, which see the
\* stored value in their argument, and the subscribers registered for "*"
C20_SetStateNotifies ==
  op = "setState" =>
    /\ ValueAt(state, options.path) = options.value
    /\ \A callback \in SubscribersOf(options.path) :
         InvokedWith(callback, options.path, options.value)
    /\ \A parent \in AncestorPaths(options.path) :
         \A callback \in SubscribersOf(parent) :
           InvokedWith(callback, parent, ValueAt(state, parent))
    /\ \A callback \in SubscribersOf(RootKey) : InvokedWith(callback, RootKey, state)

\* a setState with a subscriber of the path itself, one of its parent and
\* one of the root, each of them called
C20_Witness ==
  /\ op = "setState"
  /\ SubscribersOf(options.path) # {}
  /\ \E parent \in AncestorPaths(options.path) : SubscribersOf(parent) # {}
  /\ SubscribersOf(RootKey) # {}
  /\ Len(calls) = MaxSubscribers

-----------------------------------------------------------------------------
(* Properties of the band order                                            *)

\* the numeric lower bound of a band label: its leading signed number
LowerBound(band) == ParseFloat(band).val

\* C21: the premiumBands list of an aggregate result is sorted ascending by
\* the numeric lower bound of each band, bands with a negative lower bound
\* included: the band with lower bound -20 precedes the band with lower
\* bound 0 for every order of the records
C21_BandsSortedByLowerBound ==
  op = "aggregate" =>
    \A i \in 1..Len(aggregated.premiumBands) :
      \A j \in (i + 1)..Len(aggregated.premiumBands) :
        LowerBound(aggregated.premiumBands[i]) <= LowerBound(aggregated.premiumBands[j])

-----------------------------------------------------------------------------
(* Properties of standardizePremiumBand                                    *)

\* a two-bound label one of whose bounds is written with a decimal point;
\* a bound of magnitude below 1 other than 0 is always written with one
IsDecimalLabel(s) == IsValidBucket(s) /\ Includes(s, ".")

\* a two-bound label of whole numbers
IsBpsLabel(s) == IsValidBucket(s) /\ ~Includes(s, ".")

\* C22: standardizePremiumBand converts every two-bound label in which a
\* bound has magnitude below 1 or is written with a decimal point, such as
\* "1.6-1.8", to "round(100*min)-round(100*max)", and returns every label
\* already in basis-point form unchanged
C22_StandardizeConvertsDecimals ==
  bandOp = "standardize" =>
    /\ IsDecimalLabel(bandIn) => bandOut = ExpectedBps(bandIn)
    /\ IsBpsLabel(bandIn) => bandOut = bandIn

-----------------------------------------------------------------------------
(* Properties of the three levels of the cross-tab                         *)

\* the cell of lender l and band b, zero where the lender has none
CellOf(l, b) ==
  IF b \in DOMAIN marketShare.lenderData[l].bands
  THEN marketShare.lenderData[l].bands[b] ELSE EmptySegments

\* the totals of band b, zero where no record of the band was counted
BandTotalOf(b) ==
  IF b \in DOMAIN marketShare.bandTotals THEN marketShare.bandTotals[b] ELSE EmptySegments

\* the sum of the cells cellOf[k] for k in S, amounts and counts apart
SumCells(cellOf, S, seg) ==
  [amount |-> SumOver([k \in S |-> cellOf[k][seg].amount], S),
   count  |-> SumOver([k \in S |-> cellOf[k][seg].count], S)]

\* C23: the three levels of the cross-tab agree: for every lender and band
\* the total is the sum of the two LTV segments (amount and count); every
\* band total, per segment and overall, is the sum of the lenders' values
\* for the band; every overall total is the sum of the band totals of the
\* selected bands and the sum of the lenders' overall_total
C23_LevelsConsistent ==
  op = "crossTab" =>
    LET lenders == DOMAIN marketShare.lenderData
        bands   == Range(marketShare.selectedPremiumBands)
    IN  /\ \A l \in lenders : \A b \in DOMAIN marketShare.lenderData[l].bands :
             /\ CellOf(l, b)["total"].amount =
                  CellOf(l, b)["ltv_under_80"].amount + CellOf(l, b)["ltv_over_80"].amount
             /\ CellOf(l, b)["total"].count =
                  CellOf(l, b)["ltv_under_80"].count + CellOf(l, b)["ltv_over_80"].count
        /\ \A b \in DOMAIN marketShare.bandTotals : \A seg \in Segments :
             marketShare.bandTotals[b][seg] =
               SumCells([l \in lenders |-> CellOf(l, b)], lenders, seg)
        /\ DOMAIN marketShare.bandTotals \subseteq bands
        /\ \A seg \in Segments :
             /\ marketShare.overallTotals[seg] =
                  SumCells([b \in bands |-> BandTotalOf(b)], bands, seg)
             /\ marketShare.overallTotals[seg] =
                  SumCells([l \in lenders |-> marketShare.lenderData[l].overall_total],
                           lenders, seg)

\* two lenders counted in two selected bands, one record in each LTV segment
C23_Witness ==
  /\ op = "crossTab"
  /\ Cardinality(DOMAIN marketShare.lenderData) = 2
  /\ Cardinality(DOMAIN marketShare.bandTotals) = 2
  /\ marketShare.overallTotals["ltv_under_80"].count = 1
  /\ marketShare.overallTotals["ltv_over_80"].count = 1
  /\ marketShare.overallTotals["total"].amount = 400

-----------------------------------------------------------------------------
(* Properties of the LTV segments of the cross-tab                         *)

\* the positions of the records the cross-tab counts: a lender, and a band
\* among the selected ones
CountedRecords ==
  {i \in 1..Len(rawData) :
     /\ rawData[i].BaseLender # ""
     /\ rawData[i].PremiumBand # <<>>
     /\ Contains(marketShare.selectedPremiumBands, rawData[i].PremiumBand)}

\* the counted records of lender l and band b whose LTV is a number below 80
\* (under = TRUE), or is 80 or more or no number (under = FALSE)
CountedIn(l, b, under) ==
  {i \in CountedRecords :
     /\ rawData[i].BaseLender = l
     /\ rawData[i].PremiumBand = b
     /\ under <=> (~rawData[i].LTV.nan /\ rawData[i].LTV.val < 80)}

\* the amount and the count the records of S add to a cell
CellFrom(S) ==
  [amount |-> SumOver([i \in 1..Len(rawData) |-> OrZero(rawData[i].Loan)], S),
   count  |-> Cardinality(S)]

\* C24: the cross-tab puts every counted record into exactly one LTV
\* segment: the cell ltv_under_80 of a lender and band holds the amounts and
\* the count of its records whose LTV is a number below 80, the cell
\* ltv_over_80 those of all its other records (LTV of 80 or more, or not a
\* number), and every counted record has a cell
C24_OneSegmentPerRecord ==
  op = "crossTab" =>
    /\ \A i \in CountedRecords :
         /\ rawData[i].BaseLender \in DOMAIN marketShare.lenderData
         /\ rawData[i].PremiumBand \in
              DOMAIN marketShare.lenderData[rawData[i].BaseLender].bands
    /\ \A l \in DOMAIN marketShare.lenderData : \A b \in DOMAIN marketShare.lenderData[l].bands :
         /\ marketShare.lenderData[l].bands[b]["ltv_under_80"] = CellFrom(CountedIn(l, b, TRUE))
         /\ marketShare.lenderData[l].bands[b]["ltv_over_80"] = CellFrom(CountedIn(l, b, FALSE))

\* a record with an LTV of 80 and one whose LTV is no number, both counted
C24_Witness ==
  /\ op = "crossTab"
  /\ \E i, j \in CountedRecords :
       /\ rawData[i].LTV.nan
       /\ ~rawData[j].LTV.nan /\ rawData[j].LTV.val = 80
  /\ marketShare.overallTotals["ltv_over_80"].count = 2

-----------------------------------------------------------------------------
(* Properties of the date range                                            *)

\* the day of the record's document date is one of the days of the range,
\* the start day and the end day included
OnDayOfRange(record, dateRange) ==
  /\ DayOf(record.DocumentDate.t) >= DayOf(dateRange[1].t)
  /\ DayOf(record.DocumentDate.t) <= DayOf(dateRange[2].t)

\* the filter that ran did so with the date range among its dimensions
DateRangeApplied ==
  \/ op \in {"apply", "dmApply"}
  \/ op = "filter" /\ "dateRange" \in activeFilters

\* C25: when the date range is active the bounds are inclusive by day: both
\* filters keep a record dated on the start day or on the end day, at any
\* time of day, and every record of a day between them, and drop a record
\* dated before the start day or after the end day
C25_BoundaryDaysInclusive ==
  DateRangeApplied =>
    filtered = SelectSeq(rawData, LAMBDA r : OnDayOfRange(r, stateFilters.dateRange))

-----------------------------------------------------------------------------
(* Properties of getFilterOptions                                          *)

\* C26: getFilterOptions is guarded against reentrancy: a call made while an
\* earlier call has not returned yet returns the default options, not
\* options computed from the data, and once the outermost call has returned
\* the guard is released
C26_ReentrancyGuarded ==
  /\ \A i \in 1..Len(returned) :
       returned[i].depth > 0 => returned[i].value = getDefaultFilterOptions
  /\ Len(invocations) = 0 => gettingFilterOptions = FALSE

-----------------------------------------------------------------------------
(* Properties of updateFilter                                              *)

\* C27: in every reachable state, the initial one included, a call
\* updateFilter(name, value) with the name of one of the four dimensions
\* (date range, lenders, LTV bucket, purchase types) stores the value and
\* returns true, and a call with any other name returns false and leaves
\* the filter specification as it was
C27_SettableFieldByField ==
  (Has(options, "call") /\ options.call = "updateFilter") =>
    IF options.filterName \in FilterDimensions
    THEN /\ options.ok
         /\ Has(stateFilters, options.filterName)
         /\ stateFilters[options.filterName] = FieldValues[options.filterName]
    ELSE /\ ~options.ok
         /\ stateFilters = options.before

-----------------------------------------------------------------------------
(* Properties of the sampling                                              *)

\* the positions of the first floor(sampleSize/2) and of the last
\* floor(sampleSize/2) records of a collection of n records
HeadAndTail(n, sampleSize) ==
  {i \in 1..n : i <= sampleSize \div 2 \/ i > n - (sampleSize \div 2)}

\* the positions the claim has aggregated
SampledPositions ==
  IF options.sampleSize = 0 \/ options.sampleSize >= Len(rawData)
  THEN 1..Len(rawData)
  ELSE HeadAndTail(Len(rawData), options.sampleSize)

\* C28: sampling is opt-in and bounded: without a sampleSize, with
\* sampleSize 0 or with sampleSize >= the number of records every record is
\* aggregated; with 0 < sampleSize < that number exactly the first
\* floor(sampleSize/2) and the last floor(sampleSize/2) records are
\* aggregated, each once, which is at most sampleSize records
C28_SamplingOptInAndBounded ==
  (op = "aggregate" /\ Has(options, "given")) =>
    /\ aggregated.counts.overall = Cardinality(SampledPositions)
    /\ aggregated.totals.overall = SumOver([i \in 1..Len(rawData) |-> AmountAt(i)], SampledPositions)
    /\ options.given = Undefined => aggregated.counts.overall = Len(rawData)
    /\ (options.sampleSize > 0 /\ options.sampleSize < Len(rawData)) =>
         aggregated.counts.overall <= options.sampleSize

\* five records sampled with size 4: the first two and the last two
C28_Witness ==
  /\ op = "aggregate"
  /\ Has(options, "given")
  /\ Len(rawData) = 5
  /\ options.sampleSize = 4
  /\ aggregated.counts.overall = 4
  /\ aggregated.totals.overall = 1 + 3 + 27 + 81

-----------------------------------------------------------------------------
(* Properties of the two filters together                                  *)

\* C29: the two filter implementations agree: for every collection and
\* every filter specification DataManager.filterData returns exactly the
\* records FilterManager.filterData returns when its active-filter set is
\* the one updateActiveFilters computes from the same specification
C29_FiltersAgree ==
  op = "dmApply" =>
    filtered = FilterManager_filterData(rawData, stateFilters, updateActiveFilters(stateFilters))

-----------------------------------------------------------------------------
(* Properties of the notifications                                         *)

\* how many times the callback was called
TimesCalled(callback) == Cardinality({i \in 1..Len(calls) : calls[i].callback = callback})

\* C30: each state change invokes every subscriber it concerns exactly
\* once: a setState(path, value) calls each subscriber of the path, of an
\* ancestor of the path and of "*" once, and a resetState() without a path
\* calls each subscriber of "*" once
C30_EachSubscriberOnce ==
  /\ op = "setState" =>
       \A key \in {options.path} \cup AncestorPaths(options.path) \cup {RootKey} :
         \A callback \in SubscribersOf(key) : TimesCalled(callback) = 1
  /\ (op = "resetState" /\ options.path = <<>>) =>
       \A callback \in SubscribersOf(RootKey) : TimesCalled(callback) = 1

====
